---- MODULE Spec2Model ----
(***************************************************************************)
(* One chat room of liop/chat-server: the socket handlers that forward     *)
(* frames to the room (handler.rs, handle_socket), the room actor          *)
(* (room_message_loop, handle_message, broadcast), the per-connection      *)
(* writer tasks, the persistence writer (db.rs, spawn_db_writer and        *)
(* write_batch) and the management calls that reach the actor (routes.rs). *)
(*                                                                         *)
(* The specifications share the state.  In the first five a step that      *)
(* forwards a message also runs handle_message on it: they describe        *)
(* handle_message applied to any sequence of the sockets' traffic, and     *)
(* differ in the frames the clients send and the tasks that run:           *)
(*   Spec       membership and moderation: joins, leaves, KickUser and     *)
(*              forged UserJoined / UserLeft frames, the UnbanUser and     *)
(*              ResetAdmins control messages, the writer tasks;            *)
(*   ChatSpec   SendMessage and MuteUser frames, the clock, the admins     *)
(*              reset to none, writer tasks that fail;                     *)
(*   OrderSpec  SendMessage and CustomEvent frames and the writer tasks    *)
(*              with what they write;                                      *)
(*   AuthSpec   KickUser, MuteUser and CustomEvent frames from members     *)
(*              with and without the admin flag;                           *)
(*   DbSpec     SendMessage and MuteUser frames with the persistence       *)
(*              writer committing or dropping batches;                     *)
(*   StaleSpec  every kind of frame, sent also by sockets whose connection *)
(*              is no longer in the map.                                   *)
(* Four run room_message_loop as written, the select! over the             *)
(* high-priority, control and stats ports with its else arm, and           *)
(* close_room:                                                             *)
(*   LoopSpec   the sockets' traffic on the normal-priority queue;         *)
(*   PortSpec   the same with members announced on the high-priority port; *)
(*   ConnSpec   ws_handler and handle_socket with the connection counter;  *)
(*   PingSpec   LoopSpec with clients that send Ping frames.               *)
(* The others run tasks beside the actor statement by statement:           *)
(*   MgmtSpec   reset_admins, unban_user, list_rooms and sync_room with    *)
(*              the registry mutex;                                        *)
(*   CallbackSpec  send_callback_with_retry for each event;                *)
(*   BatchSpec  spawn_db_writer with its buffer, fed by the room;          *)
(*   BanSpec    KickUser frames, then unban_user, the control branch and   *)
(*              the persistence writer;                                    *)
(*   HistorySpec  the loops of the two history senders of callback.rs.     *)
(* Nicknames and room ids are carried data with no effect on control flow  *)
(* and are left out of the messages.                                       *)
(***************************************************************************)
EXTENDS Integers, Sequences, FiniteSets, TLC

\* ------------------------------------------------------------------ bounds
MaxFrames == 3
MaxInbox == 3
MaxTicks == 1
MaxControl == 1
UserMessageIntervalSecs == 1
\* LOW_PRIO_SLICE, 200 in the source, scaled to the traffic of the model
LowPrioSlice == 2
\* Config.max_connections
MaxConnections == 1
\* the capacity of a connection's outbound channel, 10 in the source
\* (mpsc::channel(10)), scaled to the traffic of the model
OutboundCapacity == 3
\* Config.callback_max_retries
CallbackMaxRetries == 2
\* rows of a history table and Config.chat_history_batch_size
MaxRows == 3
MaxBatchSize == 2

\* ------------------------------------------------------- program constants
DbChannelCapacity == 1024
ControlCapacity == 32
\* the limit of a batch, 100 in spawn_db_writer, scaled to the traffic
BatchLimit == 2
HighCapacity == 100
NormalCapacity == 100
StatsCapacity == 32

ConnIds == {1, 2}
Users == {"a", "b"}
Contents == {"hi"}
NoConn == 0
Sockets == {1, 2, 3}
\* the management requests of a run: two reset_admins, one unban_user, one
\* list_rooms, one sync_room
Tasks == {"reset1", "reset2", "unban", "list", "sync"}
\* the callback events of a run, each sent by a task of its own
Events == {"room_created", "user_joined", "room_closed"}
HistKinds == {"chat", "session"}
\* the wall clock is seconds since the epoch: far beyond any send interval
StartTime == UserMessageIntervalSecs
\* the Ping frames a client sends, with timestamps of its own clock
PingFrames == {[type |-> "Ping", timestamp |-> ts] : ts \in {17, 42}}

VARIABLES
    sock,                   \* handle_socket of each connection: "new", "open", "done"
    sock_user,              \* the user_id each socket was upgraded with
    nframes,                \* frames forwarded so far (bounds the run)
    ncontrol,               \* control messages sent so far (bounds the run)
    normal_q,               \* normal_prio channel: InternalMessages in flight
    control_q,              \* control channel: ControlMessages in flight
    registered,             \* the room is in state.rooms
    connections,            \* actor: conn ids of the connection map
    conn_is_admin,          \* actor: ConnectionInfo.is_admin of each entry
    user_id_to_conn_id,     \* actor: user index
    muted_users,
    banned_users,
    admin_users,
    stats,                  \* RoomStats
    user_last_message_time, \* RoomState.user_last_message_time
    pending_join_notify,    \* RoomState.pending_join_notify
    join_notify_timer_active,
    timers,                 \* join-notify timer tasks that sleep
    now,                    \* chrono::Utc::now().timestamp()
    out,                    \* per connection: frames in its outbound channel
    wire,                   \* per connection: the broadcasts its writer task wrote, by number
    writer_alive,           \* per connection: the receiver of the outbound channel exists
    db_q,                   \* db_writer channel
    chat_history,           \* table chat_history: rows in insertion order
    room_sessions,          \* table room_sessions: per user, rows open and closed
    room_bans,              \* table room_bans
    db_failed,              \* some batch failed and was discarded
    next_msg,               \* broadcasts made so far (tags the broadcast frames)
    actor_pc,               \* the actor task: "running", "panicked", "exited"
    total_connections,      \* AppState.total_connections
    hs,                     \* per upgrade request: its place in ws_handler / handle_socket
    high_q,                 \* high_prio channel: InternalMessages in flight
    stats_q,                \* stats channel: StatsQuery in flight
    room_dropped,           \* the RoomState was dropped, and the senders it held with it
    arm,                    \* the actor's place in its loop: "select", "slice", "after"
    count,                  \* the else arm's slice counter
    starved,                \* normal messages handled since a message waited on another port
    last_served,            \* the port of the message the actor handled last
    rooms_lock,             \* state.rooms, the registry mutex: "free" or the task holding it
    mg,                     \* per management request: its place in its route and its payload
    room_admins,            \* table room_admins
    admins_sent,            \* history: the admin sets sent on the control channel, in order
    pong,                   \* per connection: the Pong timestamps written on its socket
    cb,                     \* per callback event: its place in send_callback_with_retry
    buffer,                 \* spawn_db_writer: the commands of the batch being built
    db_pc,                  \* spawn_db_writer: "recv", "drain", "write", "done"
    hist                    \* send_*_history_in_batches: the loop of each sender

sockVars == <<sock, sock_user, nframes, ncontrol>>
actorVars == <<connections, conn_is_admin, user_id_to_conn_id, muted_users,
               banned_users, admin_users, stats>>
roomVars == <<user_last_message_time, pending_join_notify, join_notify_timer_active,
              timers>>
chanVars == <<out, wire, writer_alive>>
dbVars == <<chat_history, room_sessions, room_bans, db_failed>>
connVars == <<total_connections, hs>>
portVars == <<high_q, stats_q, room_dropped, arm, count, starved, last_served>>
extVars == <<hist>>
taskVars == <<rooms_lock, mg, room_admins, admins_sent, pong, cb, buffer, db_pc, extVars>>
vars == <<sock, sock_user, nframes, ncontrol, normal_q, control_q, registered, connections,
          conn_is_admin, user_id_to_conn_id, muted_users, banned_users, admin_users,
          stats, user_last_message_time, pending_join_notify, join_notify_timer_active,
          timers, now, out, wire, writer_alive, db_q, chat_history, room_sessions, room_bans,
          db_failed, next_msg, actor_pc, total_connections, hs, high_q, stats_q,
          room_dropped, arm, count, starved, last_served,
         rooms_lock, mg, room_admins, admins_sent, pong, cb, buffer, db_pc, hist>>

\* ---------------------------------------------------------------- messages
UserJoinedMsg == [type |-> "UserJoined"]
UserLeftMsg == [type |-> "UserLeft"]
SendMessageMsg(x) == [type |-> "SendMessage", content |-> x]
KickUserMsg(u) == [type |-> "KickUser", user_id |-> u]
MuteUserMsg(u) == [type |-> "MuteUser", user_id |-> u]
CustomEventMsg == [type |-> "CustomEvent"]

\* sender is Some only on the UserJoined that handle_socket itself sends
InternalMessage(c, u, content, sender) ==
    [conn_id |-> c, user_id |-> u, content |-> content, sender |-> sender]

ErrorBanned == [type |-> "Error", message |-> "banned"]
ErrorRate(wait) == [type |-> "Error", message |-> "rate", wait |-> wait]
YouAreKicked == [type |-> "YouAreKicked"]
YouAreMuted == [type |-> "YouAreMuted"]
WelcomeInfo(u, m) == [type |-> "WelcomeInfo", user_id |-> u, is_muted |-> m]
Message(u, x, a, n) == [type |-> "Message", from |-> u, content |-> x, is_admin |-> a, id |-> n]
CustomEventFrame(n) == [type |-> "CustomEvent", id |-> n]
RoomStatsFrame(s) ==
    [type |-> "RoomStats", current_users |-> s.current_users, peak_users |-> s.peak_users]
\* frames made by broadcast carry the number of the broadcast in id
IsBroadcast(f) == f.type \in {"Message", "CustomEvent"}

\* ------------------------------------------------------------------- Init
Init ==
    /\ sock = [c \in ConnIds |-> "new"]
    /\ sock_user = [c \in ConnIds |-> "a"]
    /\ nframes = 0
    /\ ncontrol = 0
    /\ normal_q = <<>>
    /\ control_q = <<>>
    /\ registered = TRUE
    /\ connections = {}
    /\ conn_is_admin = [c \in ConnIds |-> FALSE]
    /\ user_id_to_conn_id = [u \in Users |-> NoConn]
    /\ muted_users = {}
    /\ banned_users = {}
    /\ admin_users = {"a"}
    /\ stats = [current_users |-> 0, peak_users |-> 0, total_joins |-> 0]
    /\ user_last_message_time = [u \in Users |-> 0]
    /\ pending_join_notify = FALSE
    /\ join_notify_timer_active = FALSE
    /\ timers = 0
    /\ now = StartTime
    /\ out = [c \in ConnIds |-> <<>>]
    /\ wire = [c \in ConnIds |-> <<>>]
    /\ writer_alive = [c \in ConnIds |-> TRUE]
    /\ db_q = <<>>
    /\ chat_history = <<>>
    /\ room_sessions = [u \in Users |-> [open |-> 0, closed |-> 0]]
    /\ room_bans = {}
    /\ db_failed = FALSE
    /\ next_msg = 0
    /\ actor_pc = "running"
    /\ total_connections = 0
    /\ hs = [s \in Sockets |-> [at |-> "idle", user |-> "a"]]
    /\ high_q = <<>>
    /\ stats_q = <<>>
    /\ room_dropped = FALSE
    /\ arm = "select"
    /\ count = 0
    /\ starved = 0
    /\ last_served = "none"
    /\ rooms_lock = "free"
    /\ mg = [t \in Tasks |-> [at |-> "idle", arg |-> {}]]
    /\ room_admins = {"a"}
    /\ admins_sent = <<>>
    /\ pong = [c \in ConnIds |-> <<>>]
    /\ cb = [e \in Events |-> [at |-> "idle", retries |-> 0, posts |-> 0]]
    /\ buffer = <<>>
    /\ db_pc = "recv"
    /\ hist = [k \in HistKinds |-> [at |-> "idle", rows |-> 0, limit |-> 1, page |-> 1,
                                    sent |-> <<>>, failed |-> FALSE]]

\* ---------------------------------------------------------- socket handlers
\* handle_socket up to the first send: the room is looked up, the outbound
\* channel is created and UserJoined is forwarded with its sender.
SocketJoin(c, u) ==
    /\ sock[c] = "new"
    /\ registered
    /\ actor_pc = "running"
    /\ Len(normal_q) < MaxInbox
    /\ sock' = [sock EXCEPT ![c] = "open"]
    /\ sock_user' = [sock_user EXCEPT ![c] = u]
    /\ normal_q' = Append(normal_q, InternalMessage(c, u, UserJoinedMsg, TRUE))
    /\ UNCHANGED <<nframes, ncontrol, control_q, registered, actorVars, roomVars, now, chanVars,
                   db_q, dbVars, next_msg, actor_pc>>
    /\ UNCHANGED <<connVars, portVars, taskVars>>

\* the reader loop: a decoded frame other than Ping is forwarded
SocketForward(c, content) ==
    /\ sock[c] = "open"
    /\ actor_pc = "running"
    /\ nframes < MaxFrames
    /\ Len(normal_q) < MaxInbox
    /\ nframes' = nframes + 1
    /\ normal_q' = Append(normal_q, InternalMessage(c, sock_user[c], content, FALSE))
    /\ UNCHANGED <<sock, sock_user, ncontrol, control_q, registered, actorVars, roomVars, now,
                   chanVars, db_q, dbVars, next_msg, actor_pc>>
    /\ UNCHANGED <<connVars, portVars, taskVars>>

\* a handle_socket that returns without its final send (stands in for
\* SocketLeave in the check of SocketForwardsInOrder)
SocketLeaveSilent(c) ==
    /\ sock[c] = "open"
    /\ sock' = [sock EXCEPT ![c] = "done"]
    /\ UNCHANGED <<sock_user, nframes, ncontrol, normal_q, control_q, registered, actorVars,
                   roomVars, now, chanVars, db_q, dbVars, next_msg, actor_pc>>
    /\ UNCHANGED <<connVars, portVars, taskVars>>

\* the socket ended: the final UserLeft is forwarded
SocketLeave(c) ==
    /\ sock[c] = "open"
    /\ actor_pc = "running" => Len(normal_q) < MaxInbox
    /\ sock' = [sock EXCEPT ![c] = "done"]
    /\ normal_q' = IF actor_pc = "running"
                   THEN Append(normal_q, InternalMessage(c, sock_user[c], UserLeftMsg, FALSE))
                   ELSE normal_q
    /\ UNCHANGED <<sock_user, nframes, ncontrol, control_q, registered, actorVars, roomVars, now,
                   chanVars, db_q, dbVars, next_msg, actor_pc>>
    /\ UNCHANGED <<connVars, portVars, taskVars>>

\* a Pong that carries the server's clock instead of the Ping's timestamp
PongWithServerTime(ping) == [type |-> "Pong", timestamp |-> now]

\* reader loop, the arm `WsMessage::Ping { timestamp }`: the Pong built from
\* the Ping's timestamp
PongOf(ping) == [type |-> "Pong", timestamp |-> ping.timestamp]

\* reader loop, a Ping frame: the Pong is serialised and handed to the
\* socket's sink under the ws_sender mutex; nothing is sent to the room
SocketPing(c, ping) ==
    /\ sock[c] = "open"
    /\ nframes < MaxFrames
    /\ nframes' = nframes + 1
    /\ pong' = [pong EXCEPT ![c] = Append(@, PongOf(ping))]
    /\ UNCHANGED <<sock, sock_user, ncontrol, normal_q, control_q, registered, actorVars,
                   roomVars, now, chanVars, db_q, dbVars, next_msg, actor_pc>>
    /\ UNCHANGED <<connVars, portVars, rooms_lock, mg, room_admins, admins_sent, cb,
                   buffer, db_pc, extVars>>

\* ---------------------------------------------------------------- variants
\* Alternative definitions of operators below; the properties at the end of
\* the module tell each from the definition it stands in for.
StatsKept(s) == s

StatsAfterJoinNoPeak(s) ==
    [s EXCEPT !.current_users = @ + 1, !.total_joins = @ + 1]

NoEviction(u) == NoConn

NeverBanned(u) == FALSE

BroadcastTwice(o, conns, f, exclude) ==
    [c \in ConnIds |->
        IF c \in conns /\ c # exclude /\ writer_alive[c] THEN o[c] \o <<f, f>> ELSE o[c]]

BroadcastUnordered(o, conns, f, exclude) ==
    [c \in ConnIds |->
        IF c \in conns /\ c # exclude /\ writer_alive[c]
        THEN IF c = 1 THEN Append(o[c], f) ELSE <<f>> \o o[c]
        ELSE o[c]]

DbSendTwice(q, cmd) == q \o <<cmd, cmd>>

IgnoreMessage(msg) ==
    UNCHANGED <<actorVars, roomVars, out, db_q, next_msg, actor_pc>>

KeepBans(u) == UNCHANGED actorVars

\* ------------------------------------------------------------- room actor
\* mpsc send on a connection's outbound channel: Err (ignored by every
\* caller with `let _ =`) once the receiver is gone, else the frame is queued
Push(o, c, f) == IF writer_alive[c] THEN [o EXCEPT ![c] = Append(@, f)] ELSE o

\* send().await returns only once the bounded channel has room
HasRoom(c) == ~writer_alive[c] \/ Len(out[c]) < OutboundCapacity

\* broadcast: one send per entry of the connection map, but the excluded one
Broadcast(o, conns, f, exclude) ==
    [c \in ConnIds |->
        IF c \in conns /\ c # exclude /\ writer_alive[c] THEN Append(o[c], f) ELSE o[c]]

\* stats.current_users.saturating_sub(1)
StatsAfterRemove(s) ==
    [s EXCEPT !.current_users = IF @ = 0 THEN 0 ELSE @ - 1]

\* current_users += 1; total_joins += 1; peak_users raised to current_users
StatsAfterJoin(s) ==
    LET cur == s.current_users + 1
    IN [current_users |-> cur,
        peak_users |-> IF cur > s.peak_users THEN cur ELSE s.peak_users,
        total_joins |-> s.total_joins + 1]

IsBanned(u) == u \in banned_users

\* user_id_to_conn_id.remove(user) followed by connections.remove(conn):
\* the connection to evict, or NoConn
EvictTarget(u) ==
    IF user_id_to_conn_id[u] # NoConn /\ user_id_to_conn_id[u] \in connections
    THEN user_id_to_conn_id[u] ELSE NoConn

\* db_writer_tx.send(cmd).await: waits for room in the channel
DbSend(q, cmd) == Append(q, cmd)
DbHasRoom == Len(db_q) < DbChannelCapacity

\* a join that spawns a timer task whatever the flag says (stands in for
\* TimersAfterJoin in the check of OneJoinNotifyTimer)
TimersAfterEveryJoin(active, n) == n + 1

\* `if !room_state.join_notify_timer_active { .. tokio::spawn(..) }`
TimersAfterJoin(active, n) == IF active THEN n ELSE n + 1

HandleUserJoined(msg) ==
    LET c == msg.conn_id
        u == msg.user_id
        old == EvictTarget(u)
        conns1 == connections \ {old}
        admin1 == [k \in ConnIds |-> IF k = old THEN FALSE ELSE conn_is_admin[k]]
        index1 == [user_id_to_conn_id EXCEPT ![u] = NoConn]
        stats1 == IF old # NoConn THEN StatsAfterRemove(stats) ELSE stats
        out1 == IF old # NoConn THEN Push(out, old, YouAreKicked) ELSE out
    IN IF ~msg.sender
       THEN \* msg.sender.expect(..) panics: the actor task dies
            /\ actor_pc' = "panicked"
            /\ UNCHANGED <<actorVars, roomVars, out, db_q, next_msg>>
       ELSE IF IsBanned(u)
       THEN /\ HasRoom(c)
            /\ out' = Push(out, c, ErrorBanned)
            /\ UNCHANGED <<actorVars, roomVars, db_q, next_msg, actor_pc>>
       ELSE /\ HasRoom(c)
            /\ old # NoConn => HasRoom(old)
            /\ IF ~writer_alive[c]
               THEN \* the WelcomeInfo send failed: return after the eviction
                    /\ connections' = conns1
                    /\ conn_is_admin' = admin1
                    /\ user_id_to_conn_id' = index1
                    /\ stats' = stats1
                    /\ out' = out1
                    /\ UNCHANGED <<muted_users, banned_users, admin_users, roomVars, db_q>>
               ELSE /\ DbHasRoom
                    /\ connections' = conns1 \cup {c}
                    /\ conn_is_admin' = [admin1 EXCEPT ![c] = u \in admin_users]
                    /\ user_id_to_conn_id' = [index1 EXCEPT ![u] = c]
                    /\ stats' = StatsAfterJoin(stats1)
                    /\ out' = Push(out1, c, WelcomeInfo(u, u \in muted_users))
                    /\ db_q' = DbSend(db_q, [type |-> "UserJoined", user_id |-> u])
                    /\ pending_join_notify' = TRUE
                    /\ join_notify_timer_active' = TRUE
                    /\ timers' = TimersAfterJoin(join_notify_timer_active, timers)
                    /\ UNCHANGED <<muted_users, banned_users, admin_users,
                                   user_last_message_time>>
            /\ UNCHANGED <<next_msg, actor_pc>>

\* a UserLeft handler that looks the session up by user id (stands in for
\* HandleUserLeft in the check of StaleMessageIgnored)
HandleUserLeftByUser(msg) ==
    LET u == msg.user_id
        c == user_id_to_conn_id[u]
    IN IF c # NoConn /\ c \in connections
       THEN /\ DbHasRoom
            /\ connections' = connections \ {c}
            /\ conn_is_admin' = [conn_is_admin EXCEPT ![c] = FALSE]
            /\ user_id_to_conn_id' = [user_id_to_conn_id EXCEPT ![u] = NoConn]
            /\ stats' = StatsAfterRemove(stats)
            /\ db_q' = DbSend(db_q, [type |-> "UserLeft", user_id |-> u])
            /\ UNCHANGED <<muted_users, banned_users, admin_users, roomVars, out,
                           next_msg, actor_pc>>
       ELSE UNCHANGED <<actorVars, roomVars, out, db_q, next_msg, actor_pc>>

HandleUserLeft(msg) ==
    LET c == msg.conn_id
        u == msg.user_id
    IN IF c \in connections
       THEN /\ DbHasRoom
            /\ connections' = connections \ {c}
            /\ conn_is_admin' = [conn_is_admin EXCEPT ![c] = FALSE]
            /\ user_id_to_conn_id' = [user_id_to_conn_id EXCEPT ![u] = NoConn]
            /\ stats' = StatsAfterRemove(stats)
            /\ db_q' = DbSend(db_q, [type |-> "UserLeft", user_id |-> u])
            /\ UNCHANGED <<muted_users, banned_users, admin_users, roomVars, out,
                           next_msg, actor_pc>>
       ELSE UNCHANGED <<actorVars, roomVars, out, db_q, next_msg, actor_pc>>

\* handlers that skip a check of the handler they stand in for (in the check
\* of the properties about that check)
NeverLimited(c, u) == FALSE

SendIgnoringMute(msg) ==
    /\ user_last_message_time' = [user_last_message_time EXCEPT ![msg.user_id] = now]
    /\ db_q' = DbSend(db_q, [type |-> "ChatMessage", user_id |-> msg.user_id,
                             content |-> msg.content.content, id |-> next_msg + 1])
    /\ out' = Broadcast(out, connections,
                        Message(msg.user_id, msg.content.content,
                                conn_is_admin[msg.conn_id], next_msg + 1), NoConn)
    /\ next_msg' = next_msg + 1
    /\ UNCHANGED <<actorVars, pending_join_notify, join_notify_timer_active, timers,
                   actor_pc>>

CustomEventFromAnyone(msg) ==
    /\ out' = Broadcast(out, connections, CustomEventFrame(next_msg + 1), NoConn)
    /\ next_msg' = next_msg + 1
    /\ UNCHANGED <<actorVars, roomVars, db_q, actor_pc>>

\* now - last < min_interval, for a sender without the admin flag
RateLimited(c, u) ==
    /\ ~conn_is_admin[c]
    /\ now - user_last_message_time[u] < UserMessageIntervalSecs

HandleSendMessage(msg) ==
    LET c == msg.conn_id
        u == msg.user_id
        x == msg.content.content
    IN IF c \notin connections
       THEN UNCHANGED <<actorVars, roomVars, out, db_q, next_msg, actor_pc>>
       ELSE IF u \in muted_users
       THEN /\ HasRoom(c)
            /\ out' = Push(out, c, YouAreMuted)
            /\ UNCHANGED <<actorVars, roomVars, db_q, next_msg, actor_pc>>
       ELSE IF RateLimited(c, u)
       THEN /\ HasRoom(c)
            /\ out' = Push(out, c,
                   ErrorRate(UserMessageIntervalSecs - (now - user_last_message_time[u])))
            /\ UNCHANGED <<actorVars, roomVars, db_q, next_msg, actor_pc>>
       ELSE /\ DbHasRoom
            /\ \A k \in connections : HasRoom(k)
            /\ user_last_message_time' = [user_last_message_time EXCEPT ![u] = now]
            /\ db_q' = DbSend(db_q, [type |-> "ChatMessage", user_id |-> u,
                                     content |-> x, id |-> next_msg + 1])
            /\ out' = Broadcast(out, connections,
                                Message(u, x, conn_is_admin[c], next_msg + 1), NoConn)
            /\ next_msg' = next_msg + 1
            /\ UNCHANGED <<actorVars, pending_join_notify, join_notify_timer_active,
                           timers, actor_pc>>

\* a MuteUser handler that lifts the mute of a user who is already muted
MuteUserToggling(msg) ==
    LET c == msg.conn_id
        u == msg.content.user_id
    IN /\ IF c \in connections /\ conn_is_admin[c]
          THEN muted_users' = IF u \in muted_users THEN muted_users \ {u}
                              ELSE muted_users \cup {u}
          ELSE muted_users' = muted_users
       /\ UNCHANGED <<connections, conn_is_admin, user_id_to_conn_id, banned_users,
                      admin_users, stats, roomVars, out, db_q, next_msg, actor_pc>>

HandleKickUser(msg) ==
    LET c == msg.conn_id
        target == msg.content.user_id
        old == EvictTarget(target)
    IN IF c \notin connections \/ ~conn_is_admin[c]
       THEN UNCHANGED <<actorVars, roomVars, out, db_q, next_msg, actor_pc>>
       ELSE /\ DbHasRoom
            /\ old # NoConn => HasRoom(old)
            /\ banned_users' = banned_users \cup {target}
            /\ db_q' = DbSend(db_q, [type |-> "BanUser", user_id |-> target])
            /\ user_id_to_conn_id' = [user_id_to_conn_id EXCEPT ![target] = NoConn]
            /\ connections' = connections \ {old}
            /\ conn_is_admin' = [k \in ConnIds |-> IF k = old THEN FALSE ELSE conn_is_admin[k]]
            /\ stats' = IF old # NoConn THEN StatsAfterRemove(stats) ELSE stats
            /\ out' = IF old # NoConn THEN Push(out, old, YouAreKicked) ELSE out
            /\ UNCHANGED <<muted_users, admin_users, roomVars, next_msg, actor_pc>>

HandleMuteUser(msg) ==
    LET c == msg.conn_id
    IN IF c \notin connections \/ ~conn_is_admin[c]
       THEN UNCHANGED <<actorVars, roomVars, out, db_q, next_msg, actor_pc>>
       ELSE /\ muted_users' = muted_users \cup {msg.content.user_id}
            /\ UNCHANGED <<connections, conn_is_admin, user_id_to_conn_id, banned_users,
                           admin_users, stats, roomVars, out, db_q, next_msg, actor_pc>>

HandleCustomEvent(msg) ==
    LET c == msg.conn_id
    IN IF c \notin connections \/ ~conn_is_admin[c]
       THEN UNCHANGED <<actorVars, roomVars, out, db_q, next_msg, actor_pc>>
       ELSE /\ \A k \in connections : HasRoom(k)
            /\ out' = Broadcast(out, connections, CustomEventFrame(next_msg + 1), NoConn)
            /\ next_msg' = next_msg + 1
            /\ UNCHANGED <<actorVars, roomVars, db_q, actor_pc>>

\* handle_message: the registry lookup, then the match on msg.content
HandleMessage(msg) ==
    IF ~registered
    THEN UNCHANGED <<actorVars, roomVars, out, db_q, next_msg, actor_pc>>
    ELSE CASE msg.content.type = "UserJoined" -> HandleUserJoined(msg)
           [] msg.content.type = "UserLeft" -> HandleUserLeft(msg)
           [] msg.content.type = "SendMessage" -> HandleSendMessage(msg)
           [] msg.content.type = "KickUser" -> HandleKickUser(msg)
           [] msg.content.type = "MuteUser" -> HandleMuteUser(msg)
           [] msg.content.type = "CustomEvent" -> HandleCustomEvent(msg)
           [] OTHER -> UNCHANGED <<actorVars, roomVars, out, db_q, next_msg, actor_pc>>

\* handle_socket forwards UserJoined with its sender and the actor handles it
Join(c, u) ==
    /\ sock[c] = "new"
    /\ registered
    /\ actor_pc = "running"
    /\ sock' = [sock EXCEPT ![c] = "open"]
    /\ sock_user' = [sock_user EXCEPT ![c] = u]
    /\ HandleMessage(InternalMessage(c, u, UserJoinedMsg, TRUE))
    /\ UNCHANGED <<nframes, ncontrol, normal_q, control_q, registered, now, wire, writer_alive,
                   dbVars>>
    /\ UNCHANGED <<connVars, portVars, taskVars>>

\* the reader loop forwards a client frame and the actor handles it
Frame(c, content) ==
    /\ sock[c] = "open"
    /\ nframes < MaxFrames
    /\ actor_pc = "running"
    /\ nframes' = nframes + 1
    /\ HandleMessage(InternalMessage(c, sock_user[c], content, FALSE))
    /\ UNCHANGED <<sock, sock_user, ncontrol, normal_q, control_q, registered, now, wire,
                   writer_alive, dbVars>>
    /\ UNCHANGED <<connVars, portVars, taskVars>>

\* the socket ends, the final UserLeft is forwarded and handled
Leave(c) ==
    /\ sock[c] = "open"
    /\ actor_pc = "running"
    /\ sock' = [sock EXCEPT ![c] = "done"]
    /\ HandleMessage(InternalMessage(c, sock_user[c], UserLeftMsg, FALSE))
    /\ UNCHANGED <<sock_user, nframes, ncontrol, normal_q, control_q, registered, now, wire,
                   writer_alive, dbVars>>
    /\ UNCHANGED <<connVars, portVars, taskVars>>

\* the control branch of the select!, ControlMessage::UnbanUser
HandleUnbanUser(u) ==
    /\ banned_users' = banned_users \ {u}
    /\ UNCHANGED <<connections, conn_is_admin, user_id_to_conn_id, muted_users,
                   admin_users, stats>>

\* a ResetAdmins handler that also refreshes the flag of each connection
ResetAdminsRefreshing(new_admins) ==
    /\ admin_users' = new_admins
    /\ conn_is_admin' = [c \in ConnIds |->
                            \E u \in new_admins : user_id_to_conn_id[u] = c]
    /\ UNCHANGED <<connections, user_id_to_conn_id, muted_users, banned_users, stats>>

\* a ResetAdmins handler that adds the new admins to the set it has
ResetAdminsMerging(new_admins) ==
    /\ admin_users' = admin_users \cup new_admins
    /\ UNCHANGED <<connections, conn_is_admin, user_id_to_conn_id, muted_users,
                   banned_users, stats>>

\* the control branch of the select!, ControlMessage::ResetAdmins
HandleResetAdmins(new_admins) ==
    /\ admin_users' = new_admins
    /\ UNCHANGED <<connections, conn_is_admin, user_id_to_conn_id, muted_users,
                   banned_users, stats>>

\* routes.rs unban_user: the ban row is deleted, UnbanUser is sent on the
\* control channel and the actor handles it
Unban(u) ==
    /\ registered
    /\ actor_pc = "running"
    /\ ncontrol < MaxControl
    /\ ncontrol' = ncontrol + 1
    /\ room_bans' = room_bans \ {u}
    /\ HandleUnbanUser(u)
    /\ UNCHANGED <<sock, sock_user, nframes, normal_q, control_q, registered, roomVars, now, chanVars,
                   db_q, chat_history, room_sessions, db_failed, next_msg, actor_pc>>
    /\ UNCHANGED <<connVars, portVars, taskVars>>

\* routes.rs reset_admins: ResetAdmins is sent on the control channel and the
\* actor handles it
ResetAdmins(new_admins) ==
    /\ registered
    /\ actor_pc = "running"
    /\ ncontrol < MaxControl
    /\ ncontrol' = ncontrol + 1
    /\ HandleResetAdmins(new_admins)
    /\ UNCHANGED <<sock, sock_user, nframes, normal_q, control_q, registered, roomVars, now, chanVars,
                   db_q, dbVars, next_msg, actor_pc>>
    /\ UNCHANGED <<connVars, portVars, taskVars>>

\* the timer task spawned by the first join of a burst: after one second it
\* clears pending_join_notify and join_notify_timer_active
JoinNotifyTimer ==
    /\ registered
    /\ timers > 0
    /\ timers' = timers - 1
    /\ pending_join_notify' = FALSE
    /\ join_notify_timer_active' = FALSE
    /\ UNCHANGED <<sockVars, normal_q, control_q, registered, actorVars,
                   user_last_message_time, now, chanVars, db_q, dbVars, next_msg, actor_pc>>
    /\ UNCHANGED <<connVars, portVars, taskVars>>

\* ------------------------------------------------------------ writer tasks
\* the holders of a Sender of connection c's outbound channel: the local
\* `tx` of handle_socket until it returns, the ConnectionInfo of the map, and
\* a UserJoined message that still waits on a channel of the room
OutboundSenders(c) ==
    (IF sock[c] = "open" THEN {"handle_socket"} ELSE {})
    \cup (IF c \in connections THEN {"connections"} ELSE {})
    \cup (IF \E i \in DOMAIN (high_q \o normal_q) :
                /\ (high_q \o normal_q)[i].conn_id = c
                /\ (high_q \o normal_q)[i].sender
          THEN {"message"} ELSE {})

\* rx.recv() yields the next frame and the socket write succeeds
WriterWrite(c) ==
    /\ writer_alive[c]
    /\ out[c] # <<>>
    /\ wire' = [wire EXCEPT ![c] = IF IsBroadcast(Head(out[c]))
                                    THEN Append(@, Head(out[c]).id) ELSE @]
    /\ out' = [out EXCEPT ![c] = Tail(@)]
    /\ UNCHANGED <<sockVars, normal_q, control_q, registered, actorVars, roomVars, now,
                   writer_alive, db_q, dbVars, next_msg, actor_pc>>
    /\ UNCHANGED <<connVars, portVars, taskVars>>

\* a writer task that may end before it was handed a frame (stands in for
\* WriterFail in the check of FailedJoinChangesNothing)
WriterFailAnyTime(c) ==
    /\ writer_alive[c]
    /\ writer_alive' = [writer_alive EXCEPT ![c] = FALSE]
    /\ out' = [out EXCEPT ![c] = <<>>]
    /\ UNCHANGED <<sockVars, normal_q, control_q, registered, actorVars, roomVars, now,
                   wire, db_q, dbVars, next_msg, actor_pc>>
    /\ UNCHANGED <<connVars, portVars, taskVars>>

\* the socket write fails: the task breaks and drops the receiver with
\* whatever the channel still holds
WriterFail(c) ==
    /\ writer_alive[c]
    /\ out[c] # <<>>
    /\ writer_alive' = [writer_alive EXCEPT ![c] = FALSE]
    /\ out' = [out EXCEPT ![c] = <<>>]
    /\ UNCHANGED <<sockVars, normal_q, control_q, registered, actorVars, roomVars, now,
                   wire, db_q, dbVars, next_msg, actor_pc>>
    /\ UNCHANGED <<connVars, portVars, taskVars>>

\* ------------------------------------------------------------------ clock
Tick ==
    /\ now < StartTime + MaxTicks
    /\ now' = now + 1
    /\ UNCHANGED <<sockVars, normal_q, control_q, registered, actorVars, roomVars,
                   chanVars, db_q, dbVars, next_msg, actor_pc>>
    /\ UNCHANGED <<connVars, portVars, taskVars>>

\* frames a client can make the reader loop forward
ModerationFrames ==
    {KickUserMsg(u) : u \in Users} \cup {UserLeftMsg, UserJoinedMsg}

ChatFrames == {SendMessageMsg(x) : x \in Contents} \cup {MuteUserMsg(u) : u \in Users}

OrderFrames == {SendMessageMsg(x) : x \in Contents} \cup {CustomEventMsg}

Next ==
    \/ \E c \in ConnIds, u \in Users : Join(c, u)
    \/ \E c \in ConnIds, f \in ModerationFrames : Frame(c, f)
    \/ \E c \in ConnIds : Leave(c)
    \/ \E u \in Users : Unban(u)
    \/ \E new_admins \in SUBSET Users : ResetAdmins(new_admins)
    \/ JoinNotifyTimer
    \/ \E c \in ConnIds : WriterWrite(c)
    \/ \E c \in ConnIds : WriterFail(c)

Spec == Init /\ [][Next]_vars

ChatNext ==
    \/ \E c \in ConnIds, u \in Users : Join(c, u)
    \/ \E c \in ConnIds, f \in ChatFrames : Frame(c, f)
    \/ \E c \in ConnIds : Leave(c)
    \/ ResetAdmins({})
    \/ \E c \in ConnIds : WriterFail(c)
    \/ Tick

ChatSpec == Init /\ [][ChatNext]_vars

OrderNext ==
    \/ \E c \in ConnIds, u \in Users : Join(c, u)
    \/ \E c \in ConnIds, f \in OrderFrames : Frame(c, f)
    \/ \E c \in ConnIds : Leave(c)
    \/ \E c \in ConnIds : WriterWrite(c)
    \/ \E c \in ConnIds : WriterFail(c)

OrderSpec == Init /\ [][OrderNext]_vars

\* the frames that need the admin flag
AuthFrames ==
    {KickUserMsg(u) : u \in Users} \cup {MuteUserMsg(u) : u \in Users} \cup {CustomEventMsg}

AuthNext ==
    \/ \E c \in ConnIds, u \in Users : Join(c, u)
    \/ \E c \in ConnIds, f \in AuthFrames : Frame(c, f)
    \/ \E c \in ConnIds : Leave(c)
    \/ \E new_admins \in SUBSET Users : ResetAdmins(new_admins)

AuthSpec == Init /\ [][AuthNext]_vars

StaleFrames ==
    {UserLeftMsg, CustomEventMsg} \cup {SendMessageMsg(x) : x \in Contents}
    \cup {KickUserMsg(u) : u \in Users} \cup {MuteUserMsg(u) : u \in Users}

StaleNext ==
    \/ \E c \in ConnIds, u \in Users : Join(c, u)
    \/ \E c \in ConnIds, f \in StaleFrames : Frame(c, f)
    \/ \E c \in ConnIds : Leave(c)

StaleSpec == Init /\ [][StaleNext]_vars

\* --------------------------------------------------- persistence writer
\* write_batch: the commands of one batch applied in order in a transaction
RECURSIVE ApplyBatch(_, _)
ApplyBatch(db, cmds) ==
    IF cmds = <<>> THEN db
    ELSE LET cmd == Head(cmds)
             u == cmd.user_id
             next ==
               CASE cmd.type = "UserJoined" ->
                      [db EXCEPT !.sessions[u].open = @ + 1]
                 [] cmd.type = "UserLeft" ->
                      [db EXCEPT !.sessions[u] =
                          [open |-> 0, closed |-> @.closed + @.open]]
                 [] cmd.type = "ChatMessage" ->
                      [db EXCEPT !.chat = Append(@, [user_id |-> u,
                                  content |-> cmd.content, id |-> cmd.id])]
                 [] cmd.type = "BanUser" -> [db EXCEPT !.bans = @ \cup {u}]
                 [] cmd.type = "UnbanUser" -> [db EXCEPT !.bans = @ \ {u}]
         IN ApplyBatch(next, Tail(cmds))

\* the commands of the next batch: what the channel holds, up to BatchLimit
BatchOf(q) == SubSeq(q, 1, IF Len(q) < BatchLimit THEN Len(q) ELSE BatchLimit)
RestOf(q) == SubSeq(q, Len(BatchOf(q)) + 1, Len(q))

\* spawn_db_writer: one batch is taken from the channel and committed
DbWriterCommit ==
    /\ db_q # <<>>
    /\ LET db == ApplyBatch([chat |-> chat_history, sessions |-> room_sessions,
                             bans |-> room_bans], BatchOf(db_q))
       IN /\ chat_history' = db.chat
          /\ room_sessions' = db.sessions
          /\ room_bans' = db.bans
    /\ db_q' = RestOf(db_q)
    /\ UNCHANGED <<sockVars, normal_q, control_q, registered, actorVars, roomVars, now,
                   chanVars, db_failed, next_msg, actor_pc>>
    /\ UNCHANGED <<connVars, portVars, taskVars>>

\* write_batch returns Err: the transaction is rolled back, the batch is
\* logged and dropped
DbWriterFail ==
    /\ db_q # <<>>
    /\ db_q' = RestOf(db_q)
    /\ db_failed' = TRUE
    /\ UNCHANGED <<sockVars, normal_q, control_q, registered, actorVars, roomVars, now,
                   chanVars, chat_history, room_sessions, room_bans, next_msg, actor_pc>>
    /\ UNCHANGED <<connVars, portVars, taskVars>>

DbWriter == DbWriterCommit \/ DbWriterFail

DbNext ==
    \/ \E c \in ConnIds, u \in Users : Join(c, u)
    \/ \E c \in ConnIds, f \in ChatFrames : Frame(c, f)
    \/ \E c \in ConnIds : Leave(c)
    \/ DbWriterCommit
    \/ DbWriterFail

\* the persistence writer is a task of its own, woken by each command
DbSpec == Init /\ [][DbNext]_vars /\ WF_vars(DbWriter)

\* ------------------------------------------------------ room_message_loop
\* routes.rs unban_user: the ban row is deleted and UnbanUser is sent on the
\* control channel
UnbanCall(u) ==
    /\ registered
    /\ actor_pc = "running"
    /\ ncontrol < MaxControl
    /\ Len(control_q) < ControlCapacity
    /\ ncontrol' = ncontrol + 1
    /\ room_bans' = room_bans \ {u}
    /\ control_q' = Append(control_q, [type |-> "UnbanUser", user_id |-> u])
    /\ UNCHANGED <<sock, sock_user, nframes, normal_q, registered, actorVars, roomVars,
                   now, chanVars, db_q, chat_history, room_sessions, db_failed, next_msg,
                   actor_pc>>
    /\ UNCHANGED <<connVars, portVars, taskVars>>

\* routes.rs reset_admins: ResetAdmins is sent on the control channel
ResetAdminsCall(new_admins) ==
    /\ registered
    /\ actor_pc = "running"
    /\ ncontrol < MaxControl
    /\ Len(control_q) < ControlCapacity
    /\ ncontrol' = ncontrol + 1
    /\ control_q' = Append(control_q, [type |-> "ResetAdmins", admins |-> new_admins])
    /\ UNCHANGED <<sock, sock_user, nframes, normal_q, registered, actorVars, roomVars,
                   now, chanVars, db_q, dbVars, next_msg, actor_pc>>
    /\ UNCHANGED <<connVars, portVars, taskVars>>

\* list_rooms / get_rooms_basic_info: a StatsQuery is sent to a registered room
StatsCall ==
    /\ registered
    /\ Len(stats_q) < MaxControl
    /\ stats_q' = Append(stats_q, [from |-> "list"])
    /\ UNCHANGED <<sockVars, normal_q, control_q, registered, actorVars, roomVars, now,
                   chanVars, db_q, dbVars, next_msg, actor_pc, connVars, high_q,
                   room_dropped, arm, count, starved, last_served>>
    /\ UNCHANGED taskVars

\* routes.rs close_room, first half: the room leaves the registry and a
\* StatsQuery for the final statistics is sent and awaited
CloseRoom ==
    /\ rooms_lock = "free"
    /\ registered
    /\ Len(stats_q) < StatsCapacity
    /\ registered' = FALSE
    /\ stats_q' = Append(stats_q, [from |-> "close"])
    /\ UNCHANGED <<sockVars, normal_q, control_q, actorVars, roomVars, now, chanVars,
                   db_q, dbVars, next_msg, actor_pc, connVars, high_q, room_dropped,
                   arm, count, starved, last_served>>
    /\ UNCHANGED taskVars

\* close_room, second half: the query was answered, or the actor's task has
\* ended and with it the stats receiver, and drop(room) drops the RoomState
\* with the senders of the high-priority, control and stats channels
CloseRoomDrop ==
    /\ ~registered
    /\ ~room_dropped
    /\ \/ \A i \in DOMAIN stats_q : stats_q[i].from # "close"
       \/ actor_pc # "running"
    /\ room_dropped' = TRUE
    /\ UNCHANGED <<sockVars, normal_q, control_q, registered, actorVars, roomVars, now,
                   chanVars, db_q, dbVars, next_msg, actor_pc, connVars, high_q, stats_q,
                   arm, count, starved, last_served>>
    /\ UNCHANGED taskVars

\* handle_socket finds no room: an Error frame is written and the socket ends
SocketRefused(c) ==
    /\ sock[c] = "new"
    /\ ~registered
    /\ sock' = [sock EXCEPT ![c] = "done"]
    /\ UNCHANGED <<sock_user, nframes, ncontrol, normal_q, control_q, registered,
                   actorVars, roomVars, now, chanVars, db_q, dbVars, next_msg, actor_pc>>
    /\ UNCHANGED <<connVars, portVars, taskVars>>

\* a message is waiting on the high-priority, control or stats port
PortWaiting == high_q # <<>> \/ control_q # <<>> \/ stats_q # <<>>

\* select!, the branch `Some(msg) = high_prio_rx.recv()`
LoopHigh ==
    /\ actor_pc = "running"
    /\ arm = "select"
    /\ high_q # <<>>
    /\ high_q' = Tail(high_q)
    /\ HandleMessage(Head(high_q))
    /\ starved' = 0
    /\ last_served' = "high"
    /\ UNCHANGED <<sockVars, normal_q, control_q, registered, now, wire, writer_alive,
                   dbVars, connVars, stats_q, room_dropped, arm, count>>
    /\ UNCHANGED taskVars

\* select!, the branch `Some(ctrl_msg) = control_rx.recv()`
LoopControl ==
    /\ actor_pc = "running"
    /\ arm = "select"
    /\ control_q # <<>>
    /\ control_q' = Tail(control_q)
    /\ IF Head(control_q).type = "UnbanUser"
       THEN HandleUnbanUser(Head(control_q).user_id)
       ELSE HandleResetAdmins(Head(control_q).admins)
    /\ starved' = 0
    /\ last_served' = "control"
    /\ UNCHANGED <<sockVars, normal_q, registered, roomVars, now, chanVars, db_q, dbVars,
                   next_msg, actor_pc, connVars, high_q, stats_q, room_dropped, arm, count>>
    /\ UNCHANGED taskVars

\* select!, the branch `Some(query) = stats_rx.recv()`: the response is sent
\* on the query's oneshot channel
LoopStats ==
    /\ actor_pc = "running"
    /\ arm = "select"
    /\ stats_q # <<>>
    /\ stats_q' = Tail(stats_q)
    /\ starved' = 0
    /\ last_served' = "stats"
    /\ UNCHANGED <<sockVars, normal_q, control_q, registered, actorVars, roomVars, now,
                   chanVars, db_q, dbVars, next_msg, actor_pc, connVars, high_q,
                   room_dropped, arm, count>>
    /\ UNCHANGED taskVars

\* conditions under which an actor would enter the else arm that are not the
\* select!'s (each stands in for ElseArmEnabled in the check of one property)
ElseArmAlways == TRUE

ElseArmWhenNormalWaits == normal_q # <<>>

ElseArmWhenIdle == ~PortWaiting

\* select! takes its else arm only when every branch is disabled: each of
\* high_prio_rx.recv(), control_rx.recv() and stats_rx.recv() has returned
\* None, that is, its channel is empty and its senders, which live in the
\* RoomState, are dropped.
ElseArmEnabled == room_dropped /\ ~PortWaiting

\* high_prio_rx.try_recv() in the else arm
HighTryRecv ==
    IF high_q # <<>> THEN "Ok" ELSE IF room_dropped THEN "Disconnected" ELSE "Empty"

\* select!, the else arm is entered: `let mut count = 0`
LoopElse ==
    /\ actor_pc = "running"
    /\ arm = "select"
    /\ ElseArmEnabled
    /\ arm' = "slice"
    /\ count' = 0
    /\ UNCHANGED <<sockVars, normal_q, control_q, registered, actorVars, roomVars, now,
                   chanVars, db_q, dbVars, next_msg, actor_pc, connVars, high_q, stats_q,
                   room_dropped, starved, last_served>>
    /\ UNCHANGED taskVars

\* one turn of the slice loop of the else arm
LoopSlice ==
    /\ actor_pc = "running"
    /\ arm = "slice"
    /\ CASE HighTryRecv = "Ok" ->
              \* a high-priority message is handled and the slice ends
              /\ high_q' = Tail(high_q)
              /\ HandleMessage(Head(high_q))
              /\ arm' = "after"
              /\ starved' = 0
              /\ last_served' = "high"
              /\ UNCHANGED <<normal_q, count>>
         [] HighTryRecv = "Disconnected" ->
              /\ arm' = "after"
              /\ UNCHANGED <<actorVars, roomVars, out, db_q, next_msg, actor_pc, high_q,
                             normal_q, count, starved, last_served>>
         [] HighTryRecv = "Empty" ->
              IF normal_q # <<>>
              THEN \* normal_prio_rx.try_recv() yields a message: it is handled
                   /\ normal_q' = Tail(normal_q)
                   /\ HandleMessage(Head(normal_q))
                   /\ count' = count + 1
                   /\ arm' = IF count + 1 >= LowPrioSlice THEN "after" ELSE "slice"
                   /\ starved' = IF PortWaiting THEN starved + 1 ELSE 0
                   /\ last_served' = "normal"
                   /\ UNCHANGED high_q
              ELSE /\ arm' = "after"
                   /\ UNCHANGED <<actorVars, roomVars, out, db_q, next_msg, actor_pc,
                                  high_q, normal_q, count, starved, last_served>>
    /\ UNCHANGED <<sockVars, control_q, registered, now, wire, writer_alive, dbVars,
                   connVars, stats_q, room_dropped>>
    /\ UNCHANGED taskVars

\* the else arm after the slice loop: the pending join notification is
\* broadcast if the room is in the registry; the loop is left, after a
\* broadcast of RoomStats, if the connection map is empty
LoopAfterSlice ==
    /\ actor_pc = "running"
    /\ arm = "after"
    /\ IF registered /\ pending_join_notify
       THEN /\ \A k \in connections : HasRoom(k)
            /\ out' = Broadcast(out, connections, RoomStatsFrame(stats), NoConn)
            /\ pending_join_notify' = FALSE
       ELSE UNCHANGED <<out, pending_join_notify>>
    /\ IF connections = {}
       THEN /\ actor_pc' = "exited"
            /\ normal_q' = <<>>
            /\ UNCHANGED arm
       ELSE /\ arm' = "select"
            /\ UNCHANGED <<normal_q, actor_pc>>
    /\ UNCHANGED <<sockVars, control_q, registered, actorVars, user_last_message_time,
                   join_notify_timer_active, timers, now, wire, writer_alive, db_q, dbVars,
                   next_msg, connVars, high_q, stats_q, room_dropped, count, starved,
                   last_served>>
    /\ UNCHANGED taskVars

LoopFrames == {SendMessageMsg(x) : x \in Contents}

LoopNext ==
    \/ \E c \in ConnIds, u \in Users : SocketJoin(c, u)
    \/ \E c \in ConnIds, f \in LoopFrames : SocketForward(c, f)
    \/ \E c \in ConnIds : SocketLeave(c)
    \/ \E c \in ConnIds : SocketRefused(c)
    \/ \E u \in Users : UnbanCall(u)
    \/ \E new_admins \in SUBSET Users : ResetAdminsCall(new_admins)
    \/ StatsCall
    \/ CloseRoom
    \/ CloseRoomDrop
    \/ LoopControl
    \/ LoopStats
    \/ LoopElse
    \/ LoopSlice
    \/ LoopAfterSlice

\* the actor is a spawned task: it is scheduled whenever it can take a step
LoopStep == LoopHigh \/ LoopControl \/ LoopStats \/ LoopElse \/ LoopSlice \/ LoopAfterSlice

LoopSpec == Init /\ [][LoopNext]_vars /\ WF_vars(LoopStep)

\* the same with clients that send Ping frames
PingNext ==
    \/ LoopNext
    \/ \E c \in ConnIds, ping \in PingFrames : SocketPing(c, ping)

PingSpec == Init /\ [][PingNext]_vars

\* ------------------------------------------------ the high-priority port
\* The actor reads InternalMessages from high_prio_rx as it reads them from
\* normal_prio_rx; the sender is a field of the registered RoomState.  A
\* member is announced on it, with the outbound sender of its connection
HighJoin(c, u) ==
    /\ registered
    /\ sock[c] = "new"
    /\ nframes < MaxFrames
    /\ Len(high_q) < HighCapacity
    /\ sock' = [sock EXCEPT ![c] = "high"]
    /\ sock_user' = [sock_user EXCEPT ![c] = u]
    /\ nframes' = nframes + 1
    /\ high_q' = Append(high_q, InternalMessage(c, u, UserJoinedMsg, TRUE))
    /\ UNCHANGED <<ncontrol, normal_q, control_q, registered, actorVars, roomVars, now,
                   chanVars, db_q, dbVars, next_msg, actor_pc, connVars, stats_q,
                   room_dropped, arm, count, starved, last_served>>
    /\ UNCHANGED taskVars

\* the member's UserLeft is put on the high-priority port
HighLeave(c) ==
    /\ registered
    /\ sock[c] = "high"
    /\ Len(high_q) < HighCapacity
    /\ sock' = [sock EXCEPT ![c] = "done"]
    /\ high_q' = Append(high_q, InternalMessage(c, sock_user[c], UserLeftMsg, FALSE))
    /\ UNCHANGED <<sock_user, nframes, ncontrol, normal_q, control_q, registered,
                   actorVars, roomVars, now, chanVars, db_q, dbVars, next_msg, actor_pc,
                   connVars, stats_q, room_dropped, arm, count, starved, last_served>>
    /\ UNCHANGED taskVars

PortNext ==
    \/ \E c \in ConnIds, u \in Users : HighJoin(c, u)
    \/ \E c \in ConnIds : HighLeave(c)
    \/ \E c \in ConnIds, u \in Users : SocketJoin(c, u)
    \/ \E c \in ConnIds, f \in LoopFrames : SocketForward(c, f)
    \/ \E c \in ConnIds : SocketLeave(c)
    \/ \E u \in Users : UnbanCall(u)
    \/ StatsCall
    \/ CloseRoom
    \/ CloseRoomDrop
    \/ LoopHigh
    \/ LoopControl
    \/ LoopStats
    \/ LoopElse
    \/ LoopSlice
    \/ LoopAfterSlice

PortSpec == Init /\ [][PortNext]_vars /\ WF_vars(LoopStep)

\* ------------------------------------------- spawn_db_writer, step by step
dbFrame ==
    UNCHANGED <<sockVars, normal_q, control_q, registered, actorVars, roomVars, now,
                chanVars, next_msg, actor_pc, connVars, portVars, rooms_lock, mg,
                room_admins, admins_sent, pong, cb, extVars>>

\* a drain loop that stops only at an empty channel (stands in for DrainMore
\* in the check of BatchSizes)
DrainAll(buf) == TRUE

\* `while buffer.len() < 100`
DrainMore(buf) == Len(buf) < BatchLimit

\* every sender of the channel is dropped: the one in the RoomState by
\* close_room, the actor's when its task has ended
DbChannelClosed == room_dropped /\ actor_pc # "running"

\* timeout(200 ms, rx.recv()) yields Ok(Some(cmd)): buffer.push(cmd)
DbRecvSome ==
    /\ db_pc = "recv"
    /\ db_q # <<>>
    /\ buffer' = Append(buffer, Head(db_q))
    /\ db_q' = Tail(db_q)
    /\ db_pc' = "drain"
    /\ UNCHANGED dbVars
    /\ dbFrame

\* it yields Err(_): 200 ms passed with nothing in the channel
DbRecvTimeout ==
    /\ db_pc = "recv"
    /\ db_q = <<>>
    /\ ~DbChannelClosed
    /\ db_pc' = "drain"
    /\ UNCHANGED <<db_q, buffer, dbVars>>
    /\ dbFrame

\* it yields Ok(None): the channel is closed and empty, `break`
DbRecvNone ==
    /\ db_pc = "recv"
    /\ db_q = <<>>
    /\ DbChannelClosed
    /\ db_pc' = "done"
    /\ UNCHANGED <<db_q, buffer, dbVars>>
    /\ dbFrame

\* a drain loop that puts the command at the front of the buffer (stands in
\* for DbTryRecv in the check of CommandsBatchedInOrder)
DbTryRecvFront ==
    /\ db_pc = "drain"
    /\ DrainMore(buffer)
    /\ db_q # <<>>
    /\ buffer' = <<Head(db_q)>> \o buffer
    /\ db_q' = Tail(db_q)
    /\ UNCHANGED <<db_pc, dbVars>>
    /\ dbFrame

\* one turn of the drain loop in which rx.try_recv() yields a command
DbTryRecv ==
    /\ db_pc = "drain"
    /\ DrainMore(buffer)
    /\ db_q # <<>>
    /\ buffer' = Append(buffer, Head(db_q))
    /\ db_q' = Tail(db_q)
    /\ UNCHANGED <<db_pc, dbVars>>
    /\ dbFrame

\* the drain loop ends: the buffer is full or try_recv() found nothing
DbDrainEnd ==
    /\ db_pc = "drain"
    /\ ~DrainMore(buffer) \/ db_q = <<>>
    /\ db_pc' = "write"
    /\ UNCHANGED <<db_q, buffer, dbVars>>
    /\ dbFrame

\* `if !buffer.is_empty()`: write_batch commits the buffer in one
\* transaction, buffer.clear()
DbWriteBatch ==
    /\ db_pc = "write"
    /\ buffer # <<>>
    /\ LET db == ApplyBatch([chat |-> chat_history, sessions |-> room_sessions,
                             bans |-> room_bans], buffer)
       IN /\ chat_history' = db.chat
          /\ room_sessions' = db.sessions
          /\ room_bans' = db.bans
    /\ buffer' = <<>>
    /\ db_pc' = "recv"
    /\ UNCHANGED <<db_q, db_failed>>
    /\ dbFrame

\* a write_batch that commits what it executed before the failing statement
\* (stands in for DbWriteBatchFail in the check of FailedBatchDropped)
DbWriteBatchFailPartial ==
    /\ db_pc = "write"
    /\ buffer # <<>>
    /\ LET db == ApplyBatch([chat |-> chat_history, sessions |-> room_sessions,
                             bans |-> room_bans], SubSeq(buffer, 1, 1))
       IN /\ chat_history' = db.chat
          /\ room_sessions' = db.sessions
          /\ room_bans' = db.bans
    /\ db_failed' = TRUE
    /\ buffer' = <<>>
    /\ db_pc' = "recv"
    /\ UNCHANGED db_q
    /\ dbFrame

\* write_batch returns Err: the transaction is rolled back, buffer.clear()
DbWriteBatchFail ==
    /\ db_pc = "write"
    /\ buffer # <<>>
    /\ db_failed' = TRUE
    /\ buffer' = <<>>
    /\ db_pc' = "recv"
    /\ UNCHANGED <<db_q, chat_history, room_sessions, room_bans>>
    /\ dbFrame

\* the buffer is empty: nothing is written
DbWriteSkip ==
    /\ db_pc = "write"
    /\ buffer = <<>>
    /\ db_pc' = "recv"
    /\ UNCHANGED <<db_q, buffer, dbVars>>
    /\ dbFrame

BatchFrames == {SendMessageMsg(x) : x \in Contents} \cup {UserJoinedMsg}

BatchNext ==
    \/ \E c \in ConnIds, u \in Users : Join(c, u)
    \/ \E c \in ConnIds, f \in BatchFrames : Frame(c, f)
    \/ \E c \in ConnIds : Leave(c)
    \/ CloseRoom
    \/ LoopStats
    \/ CloseRoomDrop
    \/ DbRecvSome
    \/ DbRecvTimeout
    \/ DbRecvNone
    \/ DbTryRecv
    \/ DbDrainEnd
    \/ DbWriteBatch
    \/ DbWriteBatchFail
    \/ DbWriteSkip

BatchSpec == Init /\ [][BatchNext]_vars

\* --------------------------------------------------- connection counter
\* ConnectionGuard::new: count.fetch_add(1)
GuardNew(n) == n + 1

\* a guard whose drop leaves the counter as it is (stands in for GuardDrop in
\* the check of CounterMatchesSockets)
GuardKept(n) == n

\* Drop for ConnectionGuard: count.fetch_sub(1), on a counter that the same
\* guard raised
GuardDrop(n) == n - 1

\* the places of handle_socket at which its ConnectionGuard is alive
InProgress == {"lookup", "join", "reading", "leaving"}

\* ws_handler: the load of the counter is compared with max_connections, the
\* room is looked up, and the upgrade is accepted
WsHandler(s, u) ==
    /\ hs[s].at = "idle"
    /\ hs' = [hs EXCEPT ![s] =
                 [at |-> IF total_connections >= MaxConnections THEN "unavailable"
                         ELSE IF ~registered THEN "notfound"
                         ELSE "upgrading",
                  user |-> u]]
    /\ UNCHANGED <<sockVars, normal_q, control_q, registered, actorVars, roomVars, now,
                   chanVars, db_q, dbVars, next_msg, actor_pc, total_connections, portVars>>
    /\ UNCHANGED taskVars

\* handle_socket starts on the upgraded socket: the guard is created
HandleSocketEnter(s) ==
    /\ hs[s].at = "upgrading"
    /\ total_connections' = GuardNew(total_connections)
    /\ hs' = [hs EXCEPT ![s].at = "lookup"]
    /\ UNCHANGED <<sockVars, normal_q, control_q, registered, actorVars, roomVars, now,
                   chanVars, db_q, dbVars, next_msg, actor_pc, portVars>>
    /\ UNCHANGED taskVars

\* the room is looked up in the registry; without it an Error frame is
\* written and handle_socket returns
HandleSocketLookup(s) ==
    /\ hs[s].at = "lookup"
    /\ IF registered
       THEN /\ hs' = [hs EXCEPT ![s].at = "join"]
            /\ UNCHANGED total_connections
       ELSE /\ hs' = [hs EXCEPT ![s].at = "done_noroom"]
            /\ total_connections' = GuardDrop(total_connections)
    /\ UNCHANGED <<sockVars, normal_q, control_q, registered, actorVars, roomVars, now,
                   chanVars, db_q, dbVars, next_msg, actor_pc, portVars>>
    /\ UNCHANGED taskVars

\* UserJoined is sent on the normal-priority channel; handle_socket returns
\* if the actor's receiver is gone
HandleSocketJoin(s) ==
    /\ hs[s].at = "join"
    /\ IF actor_pc = "running"
       THEN /\ Len(normal_q) < NormalCapacity
            /\ normal_q' = Append(normal_q,
                                  InternalMessage(s, hs[s].user, UserJoinedMsg, TRUE))
            /\ hs' = [hs EXCEPT ![s].at = "reading"]
            /\ UNCHANGED total_connections
       ELSE /\ hs' = [hs EXCEPT ![s].at = "done_nojoin"]
            /\ total_connections' = GuardDrop(total_connections)
            /\ UNCHANGED normal_q
    /\ UNCHANGED <<sockVars, control_q, registered, actorVars, roomVars, now, chanVars,
                   db_q, dbVars, next_msg, actor_pc, portVars>>
    /\ UNCHANGED taskVars

\* the reader loop forwards a frame, or breaks if the actor's receiver is gone
HandleSocketForward(s, content) ==
    /\ hs[s].at = "reading"
    /\ nframes < MaxFrames
    /\ IF actor_pc = "running"
       THEN /\ Len(normal_q) < NormalCapacity
            /\ normal_q' = Append(normal_q,
                                  InternalMessage(s, hs[s].user, content, FALSE))
            /\ nframes' = nframes + 1
            /\ UNCHANGED hs
       ELSE /\ hs' = [hs EXCEPT ![s].at = "leaving"]
            /\ UNCHANGED <<normal_q, nframes>>
    /\ UNCHANGED <<sock, sock_user, ncontrol, control_q, registered, actorVars, roomVars,
                   now, chanVars, db_q, dbVars, next_msg, actor_pc, total_connections,
                   portVars>>
    /\ UNCHANGED taskVars

\* the socket is closed or fails: the reader loop ends
HandleSocketClosed(s) ==
    /\ hs[s].at = "reading"
    /\ hs' = [hs EXCEPT ![s].at = "leaving"]
    /\ UNCHANGED <<sockVars, normal_q, control_q, registered, actorVars, roomVars, now,
                   chanVars, db_q, dbVars, next_msg, actor_pc, total_connections, portVars>>
    /\ UNCHANGED taskVars

\* the final UserLeft is sent and handle_socket returns: the guard is dropped
HandleSocketReturn(s) ==
    /\ hs[s].at = "leaving"
    /\ actor_pc = "running" => Len(normal_q) < NormalCapacity
    /\ normal_q' = IF actor_pc = "running"
                   THEN Append(normal_q, InternalMessage(s, hs[s].user, UserLeftMsg, FALSE))
                   ELSE normal_q
    /\ hs' = [hs EXCEPT ![s].at = "done_left"]
    /\ total_connections' = GuardDrop(total_connections)
    /\ UNCHANGED <<sockVars, control_q, registered, actorVars, roomVars, now, chanVars,
                   db_q, dbVars, next_msg, actor_pc, portVars>>
    /\ UNCHANGED taskVars

\* the user id of a request has no part in the counting: one user asks
ConnNext ==
    \/ \E s \in Sockets : WsHandler(s, "a")
    \/ \E s \in Sockets : HandleSocketEnter(s)
    \/ \E s \in Sockets : HandleSocketLookup(s)
    \/ \E s \in Sockets : HandleSocketJoin(s)
    \/ \E s \in Sockets, f \in LoopFrames : HandleSocketForward(s, f)
    \/ \E s \in Sockets : HandleSocketClosed(s)
    \/ \E s \in Sockets : HandleSocketReturn(s)
    \/ CloseRoom
    \/ CloseRoomDrop
    \/ LoopStats
    \/ LoopElse
    \/ LoopSlice
    \/ LoopAfterSlice

ConnSpec == Init /\ [][ConnNext]_vars

\* ------------------------------------------------- management endpoints
\* what no management request writes
mgmtFrame == <<sockVars, normal_q, registered, actorVars, roomVars, now, chanVars, db_q,
               chat_history, room_sessions, db_failed, next_msg, actor_pc, connVars,
               high_q, room_dropped, arm, count, starved, last_served, pong, cb, buffer,
               db_pc, extVars>>

\* `state.rooms.lock().await` followed by `rooms.get(&room_id)`: the request
\* takes the registry mutex and goes on to `found`, or returns NotFound (the
\* guard is dropped on return)
LockAndGet(t, payload, found) ==
    /\ mg[t].at = "idle"
    /\ rooms_lock = "free"
    /\ IF registered
       THEN /\ rooms_lock' = t
            /\ mg' = [mg EXCEPT ![t] = [at |-> found, arg |-> payload]]
       ELSE /\ rooms_lock' = "free"
            /\ mg' = [mg EXCEPT ![t] = [at |-> "notfound", arg |-> payload]]

\* the request moves on; the guard `rooms` stays alive
Proceed(t, from, to) ==
    /\ mg[t].at = from
    /\ mg' = [mg EXCEPT ![t].at = to]
    /\ UNCHANGED rooms_lock

\* the request returns: the guard `rooms` is dropped
Return(t, from, to) ==
    /\ mg[t].at = from
    /\ mg' = [mg EXCEPT ![t].at = to]
    /\ rooms_lock' = "free"

\* reset_admins: the mutex is taken and the room looked up
ResetAdminsBegin(t, new_admins) ==
    /\ LockAndGet(t, new_admins, "db")
    /\ UNCHANGED <<mgmtFrame, control_q, stats_q, room_bans, room_admins, admins_sent>>

\* reset_admins: the transaction replaces the rows of room_admins
ResetAdminsTx(t) ==
    /\ Proceed(t, "db", "send")
    /\ room_admins' = mg[t].arg
    /\ UNCHANGED <<mgmtFrame, control_q, stats_q, room_bans, admins_sent>>

\* reset_admins: a statement of the transaction fails and `?` returns
ResetAdminsTxFail(t) ==
    /\ Return(t, "db", "failed")
    /\ UNCHANGED <<mgmtFrame, control_q, stats_q, room_bans, room_admins, admins_sent>>

\* reset_admins: ResetAdmins is sent on the control channel, then 200 OK
ResetAdminsSend(t) ==
    /\ mg[t].at = "send"
    /\ Len(control_q) < ControlCapacity
    /\ IF actor_pc = "running"
       THEN /\ Return(t, "send", "done")
            /\ control_q' = Append(control_q, [type |-> "ResetAdmins", admins |-> mg[t].arg])
            /\ admins_sent' = Append(admins_sent, mg[t].arg)
       ELSE /\ Return(t, "send", "failed")
            /\ UNCHANGED <<control_q, admins_sent>>
    /\ UNCHANGED <<mgmtFrame, stats_q, room_bans, room_admins>>

\* unban_user: the mutex is taken and the room looked up
UnbanUserBegin(t, u) ==
    /\ LockAndGet(t, {u}, "db")
    /\ UNCHANGED <<mgmtFrame, control_q, stats_q, room_bans, room_admins, admins_sent>>

\* unban_user: the row of room_bans is deleted
UnbanUserDelete(t) ==
    /\ Proceed(t, "db", "send")
    /\ room_bans' = room_bans \ mg[t].arg
    /\ UNCHANGED <<mgmtFrame, control_q, stats_q, room_admins, admins_sent>>

\* unban_user: UnbanUser is sent on the control channel, then 200 OK
UnbanUserSend(t) ==
    /\ mg[t].at = "send"
    /\ Len(control_q) < ControlCapacity
    /\ IF actor_pc = "running"
       THEN /\ Return(t, "send", "done")
            /\ control_q' = Append(control_q, [type |-> "UnbanUser",
                                               user_id |-> CHOOSE u \in mg[t].arg : TRUE])
       ELSE /\ Return(t, "send", "failed")
            /\ UNCHANGED control_q
    /\ UNCHANGED <<mgmtFrame, stats_q, room_bans, room_admins, admins_sent>>

\* list_rooms and sync_room: the mutex is taken; list_rooms iterates the
\* registry, sync_room looks the room up
QueryBegin(t) ==
    /\ LockAndGet(t, {}, "query")
    /\ UNCHANGED <<mgmtFrame, control_q, stats_q, room_bans, room_admins, admins_sent>>

\* a StatsQuery with a fresh oneshot channel is sent on the stats channel
QuerySend(t) ==
    /\ mg[t].at = "query"
    /\ Len(stats_q) < StatsCapacity
    /\ IF actor_pc = "running"
       THEN /\ Proceed(t, "query", "await")
            /\ stats_q' = Append(stats_q, [from |-> t])
       ELSE /\ Return(t, "query", "done")
            /\ UNCHANGED stats_q
    /\ UNCHANGED <<mgmtFrame, control_q, room_bans, room_admins, admins_sent>>

\* rx.await: the actor has taken the query and sent the response
ReplyArrived(t) == \A i \in DOMAIN stats_q : stats_q[i].from # t

\* list_rooms: the details are pushed and the list returned
ListRoomsReply(t) ==
    /\ ReplyArrived(t)
    /\ Return(t, "await", "done")
    /\ UNCHANGED <<mgmtFrame, control_q, stats_q, room_bans, room_admins, admins_sent>>

\* sync_room: the details arrive, get_data_for_sync reads the database next
SyncRoomReply(t) ==
    /\ ReplyArrived(t)
    /\ Proceed(t, "await", "db")
    /\ UNCHANGED <<mgmtFrame, control_q, stats_q, room_bans, room_admins, admins_sent>>

\* sync_room: get_data_for_sync returns the payload, or `?` returns its error
SyncRoomData(t) ==
    /\ \/ Proceed(t, "db", "http")
       \/ Return(t, "db", "failed")
    /\ UNCHANGED <<mgmtFrame, control_q, stats_q, room_bans, room_admins, admins_sent>>

\* sync_room: send_sync_data POSTs the payload, then Ok(())
SyncRoomPost(t) ==
    /\ Return(t, "http", "done")
    /\ UNCHANGED <<mgmtFrame, control_q, stats_q, room_bans, room_admins, admins_sent>>

MgmtNext ==
    \/ \E t \in {"reset1", "reset2"}, new_admins \in SUBSET Users :
          ResetAdminsBegin(t, new_admins)
    \/ \E t \in {"reset1", "reset2"} :
          ResetAdminsTx(t) \/ ResetAdminsTxFail(t) \/ ResetAdminsSend(t)
    \/ \E u \in Users : UnbanUserBegin("unban", u)
    \/ UnbanUserDelete("unban")
    \/ UnbanUserSend("unban")
    \/ \E t \in {"list", "sync"} : QueryBegin(t) \/ QuerySend(t)
    \/ ListRoomsReply("list")
    \/ SyncRoomReply("sync")
    \/ SyncRoomData("sync")
    \/ SyncRoomPost("sync")
    \/ CloseRoom
    \/ CloseRoomDrop
    \/ LoopControl
    \/ LoopStats
    \/ LoopElse
    \/ LoopSlice
    \/ LoopAfterSlice

MgmtSpec == Init /\ [][MgmtNext]_vars /\ WF_vars(LoopStep)

\* the actor is at a statement that locks the registry: the lookup at the
\* head of handle_message in the slice loop, the lookup of the RoomState
\* after it
ActorNeedsMutex == actor_pc = "running" /\ arm \in {"slice", "after"}

\* KickUser frames handled before an unban_user call, with the actor's control
\* branch and the persistence writer
BanNext ==
    \/ \E c \in ConnIds, u \in Users : Join(c, u)
    \/ \E c \in ConnIds, u \in Users : mg["unban"].at = "idle" /\ Frame(c, KickUserMsg(u))
    \/ \E u \in Users : UnbanUserBegin("unban", u)
    \/ UnbanUserDelete("unban")
    \/ UnbanUserSend("unban")
    \/ LoopControl
    \/ DbWriterCommit

BanSpec == Init /\ [][BanNext]_vars

\* ------------------------------------------------------------- callbacks
\* what send_callback_with_retry does not write
cbFrame == <<sockVars, normal_q, control_q, registered, actorVars, roomVars, now,
             chanVars, db_q, dbVars, next_msg, actor_pc, connVars, portVars, rooms_lock,
             mg, room_admins, admins_sent, pong, buffer, db_pc, extVars>>

\* a loop test that allows one attempt less
RetryAllowedStrict(retries) == retries < CallbackMaxRetries

\* `while retries <= max_retries`, and the same test before the sleep
RetryAllowed(retries) == retries <= CallbackMaxRetries

\* send_callback_with_retry is entered with retries = 0
CallbackBegin(e) ==
    /\ cb[e].at = "idle"
    /\ cb' = [cb EXCEPT ![e].at = IF RetryAllowed(0) THEN "post" ELSE "dropped"]
    /\ UNCHANGED cbFrame

\* the POST is answered with a 2xx status: return
CallbackPostOk(e) ==
    /\ cb[e].at = "post"
    /\ cb' = [cb EXCEPT ![e] = [at |-> "done", retries |-> @.retries,
                                posts |-> @.posts + 1]]
    /\ UNCHANGED cbFrame

\* the POST is answered with another status or fails in transport:
\* retries += 1, then the sleep before the next attempt, or the loop ends
\* and the event is logged and dropped
CallbackPostFail(e) ==
    /\ cb[e].at = "post"
    /\ cb' = [cb EXCEPT ![e] =
                 [at |-> IF RetryAllowed(@.retries + 1) THEN "sleep" ELSE "dropped",
                  retries |-> @.retries + 1, posts |-> @.posts + 1]]
    /\ UNCHANGED cbFrame

\* sleep(retry_delay) is over
CallbackWake(e) ==
    /\ cb[e].at = "sleep"
    /\ cb' = [cb EXCEPT ![e].at = "post"]
    /\ UNCHANGED cbFrame

CallbackNext ==
    \E e \in Events :
        CallbackBegin(e) \/ CallbackPostOk(e) \/ CallbackPostFail(e) \/ CallbackWake(e)

CallbackSpec == Init /\ [][CallbackNext]_vars

\* ------------------------------------------------------- history batches
histFrame ==
    UNCHANGED <<sockVars, normal_q, control_q, registered, actorVars, roomVars, now,
                chanVars, db_q, dbVars, next_msg, actor_pc, connVars, portVars,
                rooms_lock, mg, room_admins, admins_sent, pong, cb, buffer, db_pc>>

\* a has_next that counts the current page among the pages to come (stands
\* in for HasNext in the check of HistoryBatches)
HasNextInclusive(page, total_records, limit) ==
    page <= (total_records + limit - 1) \div limit

\* get_chat_history_page: ((total_records as f64) / (limit as f64)).ceil()
TotalPages(total_records, limit) == (total_records + limit - 1) \div limit

\* PaginationInfo.has_next: page < total_pages
HasNext(page, total_records, limit) == page < TotalPages(total_records, limit)

\* send_chat_history_in_batches / send_session_history_in_batches is called:
\* `let mut page = 1`, over a table of `rows` rows with batch size `limit`
HistoryBegin(k, rows, limit) ==
    /\ hist[k].at = "idle"
    /\ hist' = [hist EXCEPT ![k] = [at |-> "loop", rows |-> rows, limit |-> limit,
                                    page |-> 1, sent |-> <<>>, failed |-> FALSE]]
    /\ histFrame

\* one turn of the loop, the page query returns Ok: the batch is sent with
\* its batch id and is_last_batch = !has_next; `break` after the last batch,
\* `page += 1` otherwise
HistoryPage(k) ==
    LET h == hist[k]
        is_last_batch == ~HasNext(h.page, h.rows, h.limit)
        batch == [batch_id |-> [prefix |-> k, page |-> h.page],
                  is_last_batch |-> is_last_batch]
    IN /\ h.at = "loop"
       /\ hist' = [hist EXCEPT ![k].sent = Append(@, batch),
                               ![k].at = IF is_last_batch THEN "done" ELSE "loop",
                               ![k].page = IF is_last_batch THEN @ ELSE @ + 1]
       /\ histFrame

\* the page query returns Err: the error is logged, `break`
HistoryPageFail(k) ==
    /\ hist[k].at = "loop"
    /\ hist' = [hist EXCEPT ![k].at = "done", ![k].failed = TRUE]
    /\ histFrame

HistoryNext ==
    \/ \E k \in HistKinds, rows \in 0..MaxRows, limit \in 1..MaxBatchSize :
          HistoryBegin(k, rows, limit)
    \/ \E k \in HistKinds : HistoryPage(k)
    \/ \E k \in HistKinds : HistoryPageFail(k)

HistorySpec == Init /\ [][HistoryNext]_vars

\* ------------------------------------------------------------- properties
\* the frames a connection has been sent and its writer task has not yet taken
Holds(c, type) == \E i \in DOMAIN out[c] : out[c][i].type = type

\* the connections of the map that were registered for user u
ConnsOf(u) == {k \in connections : sock_user[k] = u}

\* C1: stats.current_users equals the number of entries of the connection map
CurrentUsersMatchesConnections == stats.current_users = Cardinality(connections)

\* a state after two joins and one removal
C1Witness == stats.total_joins = 2 /\ stats.current_users = 1

\* no two entries of the connection map belong to the same user id
AtMostOneConnectionPerUser ==
    \A c1, c2 \in connections : c1 # c2 => sock_user[c1] # sock_user[c2]

\* a UserJoined of a user who has an entry in the map: the older connection
\* is removed and sent YouAreKicked, the new one is registered, and the
\* counters went down before they went up
SecondJoinEvictsFirst ==
    \A c \in ConnIds, u \in Users :
        (Join(c, u) /\ u \notin banned_users /\ ConnsOf(u) # {}) =>
            /\ \A old \in ConnsOf(u) :
                  /\ old \notin connections'
                  /\ out'[old] = Push(out, old, YouAreKicked)[old]
            /\ c \in connections'
            /\ user_id_to_conn_id'[u] = c
            /\ stats'.current_users = stats.current_users
            /\ stats'.peak_users = stats.peak_users

\* C2: each user id owns at most one entry of the connection map, and a
\* UserJoined of a user who has a live connection removes the older
\* connection and sends it YouAreKicked before the new one is registered:
\* the new connection is in the map, the older one is not, and the counters
\* went down before they went up (current_users and peak_users are as
\* before).  A send on a channel whose writer task has ended queues nothing.
OneLiveConnectionPerUser ==
    [](AtMostOneConnectionPerUser) /\ [][SecondJoinEvictsFirst]_vars

\* a user's second connection is in the map and the first holds YouAreKicked
C2Witness ==
    \E c1, c2 \in ConnIds :
        /\ c1 # c2
        /\ sock[c1] = "open" /\ sock_user[c1] = sock_user[c2]
        /\ c2 \in connections /\ c1 \notin connections
        /\ Holds(c1, "YouAreKicked")

\* C3: no user of the ban set has an entry in the connection map
BannedNotConnected == \A c \in connections : sock_user[c] \notin banned_users

\* a banned user's join was refused while another member is connected
C3Witness ==
    \E c \in ConnIds :
        /\ sock[c] = "open" /\ sock_user[c] \in banned_users
        /\ Holds(c, "Error")
        /\ connections # {}

\* C4: stats.peak_users never decreases from one step to the next and is at
\* least stats.current_users in every state
PeakUsersMonotone ==
    [](stats.peak_users >= stats.current_users)
        /\ [][stats'.peak_users >= stats.peak_users]_vars

\* two members were connected at once and both are gone
C4Witness == stats.peak_users = 2 /\ stats.current_users = 0

\* C5: while the room is registered, a message on the normal-priority
\* channel is eventually dequeued and handled by the actor
NormalPriorityEventuallyHandled ==
    (registered /\ normal_q # <<>>) ~> (~registered \/ normal_q = <<>>)

\* the step of a SendMessage whose sender is in the map, not muted and not
\* rate-limited
AcceptedSendMessage ==
    \A c \in ConnIds, x \in Contents :
        (/\ Frame(c, SendMessageMsg(x))
         /\ c \in connections
         /\ sock_user[c] \notin muted_users
         /\ conn_is_admin[c]
              \/ now - user_last_message_time[sock_user[c]] >= UserMessageIntervalSecs) =>
            \A k \in ConnIds :
                out'[k] = IF k \in connections
                          THEN Push(out, k, Message(sock_user[c], x, conn_is_admin[c],
                                                    next_msg + 1))[k]
                          ELSE out[k]

\* C6: an accepted SendMessage (sender in the map, not muted, not
\* rate-limited) sends exactly one Message with the sender's user id, the
\* content and the sender's is_admin snapshot on the outbound channel of
\* every connection of the map, the sender's included, and on no other.  A
\* send on a channel whose writer task has ended queues nothing.
AcceptedSendMessageBroadcast == [][AcceptedSendMessage]_vars

\* both connections are in the map and hold the same Message, flagged with
\* the admin snapshot of a sender who is no longer in the admin set
C6Witness ==
    \E n \in 1..MaxFrames :
        \A k \in ConnIds :
            /\ k \in connections
            /\ \E i \in DOMAIN out[k] :
                  /\ out[k][i].type = "Message" /\ out[k][i].id = n
                  /\ out[k][i].is_admin /\ out[k][i].from \notin admin_users

\* C7: two broadcasts that two writer tasks both wrote were written in the
\* same relative order by both
SameRelativeOrder ==
    \A c1, c2 \in ConnIds :
        \A i, j \in DOMAIN wire[c1], p, q \in DOMAIN wire[c2] :
            (i < j /\ wire[c1][i] = wire[c2][p] /\ wire[c1][j] = wire[c2][q]) => p < q

\* both writer tasks wrote the first two broadcasts
C7Witness == \A c \in ConnIds : Len(wire[c]) >= 2 /\ wire[c][1] = 1 /\ wire[c][2] = 2

\* the command and the row of the n-th accepted SendMessage
ChatCommand(u, x, n) == [type |-> "ChatMessage", user_id |-> u, content |-> x, id |-> n]
ChatRow(u, x, n) == [user_id |-> u, content |-> x, id |-> n]
Occurrences(seq, e) == Cardinality({i \in DOMAIN seq : seq[i] = e})
MessagesSent == UNION {{out[c][i] : i \in DOMAIN out[c]} : c \in ConnIds}

\* a step that sends a Message appends its ChatMessage command, once
MessageComesWithCommand ==
    \A c \in ConnIds :
        (Len(out'[c]) > Len(out[c]) /\ out'[c][Len(out'[c])].type = "Message") =>
            LET m == out'[c][Len(out'[c])]
            IN db_q' = Append(db_q, ChatCommand(m.from, m.content, m.id))

\* a SendMessage of a muted or rate-limited sender is answered to the sender
\* alone and sends no command
RejectedSendMessage ==
    \A c \in ConnIds, x \in Contents :
        (/\ Frame(c, SendMessageMsg(x))
         /\ c \in connections
         /\ \/ sock_user[c] \in muted_users
            \/ /\ ~conn_is_admin[c]
               /\ now - user_last_message_time[sock_user[c]] < UserMessageIntervalSecs) =>
            /\ db_q' = db_q
            /\ \A k \in ConnIds \ {c} : out'[k] = out[k]
            /\ Len(out'[c]) = Len(out[c]) + 1
            /\ out'[c][Len(out'[c])].type \in {"YouAreMuted", "Error"}

\* a Message that was sent has one command or one row, never two, and has
\* one of them as long as no batch failed
OneRowPerMessage ==
    \A m \in MessagesSent :
        m.type = "Message" =>
            LET rows == Occurrences(chat_history, ChatRow(m.from, m.content, m.id))
                cmds == Occurrences(db_q, ChatCommand(m.from, m.content, m.id))
            IN /\ rows + cmds <= 1
               /\ ~db_failed => rows + cmds = 1

\* a queued ChatMessage command is committed as a row unless a batch fails
CommandEventuallyCommitted ==
    \A n \in 1..MaxFrames :
        (\E i \in DOMAIN db_q : db_q[i].type = "ChatMessage" /\ db_q[i].id = n)
            ~> (db_failed \/ \E i \in DOMAIN chat_history : chat_history[i].id = n)

\* C8: a Message sent to a receiver comes with exactly one ChatMessage
\* command of the same user and content, which is committed as exactly one
\* chat_history row unless a batch fails; a rejected SendMessage (muted or
\* rate-limited sender) sends no Message and no command.
MessagePersistedOnce ==
    /\ [][MessageComesWithCommand /\ RejectedSendMessage]_vars
    /\ [](OneRowPerMessage)
    /\ CommandEventuallyCommitted

\* a Message was sent and its row committed, and a SendMessage was rejected
C8Witness ==
    /\ ~db_failed /\ db_q = <<>> /\ chat_history # <<>>
    /\ \E c \in ConnIds : Holds(c, "Message")
    /\ \E c \in ConnIds : Holds(c, "YouAreMuted") \/ Holds(c, "Error")

\* the step of a KickUser sent by an admin connection of the map
KickBansAndEvicts ==
    \A c \in ConnIds, t \in Users :
        (c \in connections /\ conn_is_admin[c] /\ Frame(c, KickUserMsg(t))) =>
            /\ t \in banned_users'
            /\ db_q' = Append(db_q, [type |-> "BanUser", user_id |-> t])
            /\ connections' = connections \ ConnsOf(t)
            /\ \A k \in ConnIds :
                  out'[k] = IF k \in ConnsOf(t) THEN Push(out, k, YouAreKicked)[k]
                            ELSE out[k]

\* the step of a UserJoined of a user of the ban set
BannedJoinRefused ==
    \A c \in ConnIds, u \in Users :
        (u \in banned_users /\ Join(c, u)) =>
            /\ out'[c] = Append(out[c], ErrorBanned)
            /\ connections' = connections
            /\ user_id_to_conn_id' = user_id_to_conn_id

\* only the UnbanUser control message takes a user out of the ban set
BanLastsUntilUnban ==
    \A u \in Users : (u \in banned_users /\ u \notin banned_users') => Unban(u)

\* C9: a KickUser of an admin connection puts the target in the ban set,
\* sends a BanUser command, and removes the target's connection from the map
\* and sends it YouAreKicked; a UserJoined of a banned user is answered with
\* Error and changes no map; a user leaves the ban set only by UnbanUser.
\* A send on a channel whose writer task has ended queues nothing.
KickUserBans == [][KickBansAndEvicts /\ BannedJoinRefused /\ BanLastsUntilUnban]_vars

\* a kicked connection holds YouAreKicked, a later join of a banned user
\* holds the Error, and the BanUser command is on the persistence channel
C9Witness ==
    /\ \E c1, c2 \in ConnIds :
          /\ Holds(c1, "YouAreKicked")
          /\ Holds(c2, "Error") /\ sock_user[c2] \in banned_users
    /\ \E i \in DOMAIN db_q : db_q[i].type = "BanUser"

\* the UnbanUser control message takes the user out of the ban set
UnbanClearsBan == \A u \in Users : Unban(u) => u \notin banned_users'

\* a user enters the ban set only by a KickUser of an admin connection
BanOnlyByKick ==
    \A u \in Users :
        (u \notin banned_users /\ u \in banned_users') =>
            \E c \in connections : conn_is_admin[c] /\ Frame(c, KickUserMsg(u))

\* the step of a UserJoined of a user who is not in the ban set
UnbannedJoinAccepted ==
    \A c \in ConnIds, u \in Users :
        (u \notin banned_users /\ Join(c, u)) =>
            /\ out'[c] = Append(out[c], WelcomeInfo(u, u \in muted_users))
            /\ c \in connections'
            /\ user_id_to_conn_id'[u] = c

\* C10: once UnbanUser(u) is handled u is not in the ban set, u enters it
\* again only by a KickUser of an admin, and a UserJoined of a user who is
\* not in the ban set is accepted: it is sent WelcomeInfo and is in the map
UnbanAllowsJoin == [][UnbanClearsBan /\ BanOnlyByKick /\ UnbannedJoinAccepted]_vars

\* a user was kicked, a control message was handled, and the user joined
\* after the kick and is in the map
C10Witness ==
    \E u \in Users, i, j \in DOMAIN db_q :
        /\ i < j
        /\ db_q[i] = [type |-> "BanUser", user_id |-> u]
        /\ db_q[j] = [type |-> "UserJoined", user_id |-> u]
        /\ ncontrol > 0
        /\ ConnsOf(u) # {}

\* C11: the global connection counter never exceeds max_connections
ConnectionsWithinCap == total_connections <= MaxConnections

\* the sockets whose handle_socket holds its guard
SocketsInProgress == {s \in Sockets : hs[s].at \in InProgress}

\* C12: total_connections is the number of handle_socket invocations in
\* progress: each one adds one when it starts and takes one off on whichever
\* path it returns, so the counter is 0 when every socket has ended
CounterMatchesSockets == total_connections = Cardinality(SocketsInProgress)

\* three sockets have ended, one on each return path, and the counter is 0
C12Witness ==
    /\ total_connections = 0
    /\ {hs[s].at : s \in Sockets} = {"done_noroom", "done_nojoin", "done_left"}

\* the actor takes a message from the normal-priority channel
NormalDequeued == arm = "slice" /\ normal_q # <<>> /\ normal_q' = Tail(normal_q)

\* C13: a step of the actor that takes a message from the normal-priority
\* channel is taken only when no message waits on the high-priority, control
\* or stats port
StrictPriority == [][NormalDequeued => ~PortWaiting]_vars

\* a stats query was answered while a normal-priority message was waiting
C13Witness == last_served = "stats" /\ normal_q # <<>>

ActorOutlivesRegistration == registered => actor_pc = "running"

\* the last member has left a registered room: the map is empty again, the
\* actor has returned to its select! and is alive
C15Witness ==
    /\ registered /\ actor_pc = "running" /\ arm = "select"
    /\ connections = {} /\ stats.total_joins > 0
    /\ high_q = <<>> /\ \E c \in ConnIds : sock[c] = "done"

\* every sender of the four inbound channels is dropped
PortsClosed == room_dropped /\ \A c \in ConnIds : sock[c] # "open"

\* C16: once the four inbound ports are closed the actor eventually leaves
\* its loop and terminates, whatever the connection map holds
ClosedActorTerminates == PortsClosed ~> actor_pc = "exited"

\* C17: when the persistence writer has drained its channel and no batch
\* failed, each user has as many open room_sessions rows as entries in the
\* connection map
OpenSessionsMatchConnections ==
    (db_q = <<>> /\ ~db_failed) =>
        \A u \in Users : room_sessions[u].open = Cardinality(ConnsOf(u))

\* the frame that answers a rate-limited SendMessage
RateError(wait) == [type |-> "Error", message |-> "rate", wait |-> wait]

\* what a rejected SendMessage of connection c does: the frame f is sent to c
\* alone, no command is sent, nothing is broadcast, the last send time stays
Rejected(c, f) ==
    /\ out' = Push(out, c, f)
    /\ db_q' = db_q
    /\ next_msg' = next_msg
    /\ user_last_message_time' = user_last_message_time

\* a SendMessage of a connection of the map without the admin flag, handled
\* less than the interval after the user's last accepted send, is rejected
\* with an Error naming the remaining wait
RateLimitRejects ==
    \A c \in ConnIds, x \in Contents :
        (/\ Frame(c, SendMessageMsg(x))
         /\ c \in connections
         /\ ~conn_is_admin[c]
         /\ now - user_last_message_time[sock_user[c]] < UserMessageIntervalSecs) =>
            Rejected(c, RateError(UserMessageIntervalSecs
                                  - (now - user_last_message_time[sock_user[c]])))

\* the same for a sender who is not muted
UnmutedRateLimitRejects ==
    \A c \in ConnIds, x \in Contents :
        (/\ Frame(c, SendMessageMsg(x))
         /\ c \in connections
         /\ sock_user[c] \notin muted_users
         /\ ~conn_is_admin[c]
         /\ now - user_last_message_time[sock_user[c]] < UserMessageIntervalSecs) =>
            Rejected(c, RateError(UserMessageIntervalSecs
                                  - (now - user_last_message_time[sock_user[c]])))

\* a SendMessage of an unmuted connection with the admin flag is accepted
\* whatever the time of the user's last send
AdminNeverLimited ==
    \A c \in ConnIds, x \in Contents :
        (/\ Frame(c, SendMessageMsg(x))
         /\ c \in connections
         /\ sock_user[c] \notin muted_users
         /\ conn_is_admin[c]) =>
            /\ next_msg' = next_msg + 1
            /\ user_last_message_time'[sock_user[c]] = now

\* C18 as stated: every SendMessage of a non-admin connection inside the
\* interval is answered with the Error naming the remaining wait
RateLimitAsStated == [][RateLimitRejects /\ AdminNeverLimited]_vars

\* C18: a SendMessage of a non-admin connection of the map whose user is not
\* muted, handled at now with now - t < user_message_interval_secs, is
\* rejected: Error with the remaining wait to the sender, no broadcast, no
\* ChatMessage command, last send time unchanged; a connection with the admin
\* flag is never rate-limited
RateLimit == [][UnmutedRateLimitRejects /\ AdminNeverLimited]_vars

\* a non-admin holds the Error of a rejected send after an accepted one
C18Witness ==
    \E c \in ConnIds :
        /\ c \in connections /\ ~conn_is_admin[c]
        /\ Holds(c, "Message")
        /\ \E i \in DOMAIN out[c] : out[c][i].type = "Error" /\ out[c][i].message = "rate"

\* the step of a SendMessage of a connection of the map whose user is muted
MutedSendMessage ==
    \A c \in ConnIds, x \in Contents :
        (/\ Frame(c, SendMessageMsg(x))
         /\ c \in connections
         /\ sock_user[c] \in muted_users) =>
            Rejected(c, [type |-> "YouAreMuted"])

\* C19: a SendMessage of a connected, muted user is answered with YouAreMuted
\* to the sender alone and dropped: no Message, no ChatMessage command, no
\* update of the last send time
MutedSendMessageDropped == [][MutedSendMessage]_vars

\* a muted member holds YouAreMuted, another member is connected, and no
\* broadcast was made
C19Witness ==
    \E c, k \in connections :
        /\ c # k
        /\ sock_user[c] \in muted_users /\ Holds(c, "YouAreMuted")
        /\ next_msg = 0

\* the step of a KickUser, MuteUser or CustomEvent of a connection without
\* the admin flag
UnauthorizedFrame ==
    \A c \in ConnIds, f \in AuthFrames :
        (Frame(c, f) /\ ~conn_is_admin[c]) =>
            UNCHANGED <<actorVars, roomVars, out, db_q, next_msg, actor_pc>>

\* C20: a KickUser, MuteUser or CustomEvent of a connection whose admin flag
\* is false changes nothing: ban set, mute set, connection map and stats stay,
\* no frame is sent to anyone and no command is sent
UnauthorizedFrameDropped == [][UnauthorizedFrame]_vars

\* every frame the model allows was sent while both connections were in the
\* map without the admin flag, and nothing came of them
C20Witness ==
    /\ nframes = MaxFrames
    /\ \A c \in ConnIds : c \in connections /\ ~conn_is_admin[c]
    /\ banned_users = {} /\ muted_users = {} /\ next_msg = 0
    /\ \A c \in ConnIds : Len(out[c]) = 1

\* the ResetAdmins messages still on the control channel, oldest first
PendingResets ==
    LET IsReset(m) == m.type = "ResetAdmins"
        q == SelectSeq(control_q, IsReset)
    IN [i \in DOMAIN q |-> q[i].admins]

\* the number of ResetAdmins messages the actor has handled
ResetsHandled == Len(admins_sent) - Len(PendingResets)

\* C21: the control channel hands the ResetAdmins messages to the actor in the
\* order they were sent, and the in-memory admin set is the set of the last
\* one handled, whatever the sets before it: after ResetAdmins(S) and
\* ResetAdmins(S') have both been handled it is exactly S'
LastResetWins ==
    /\ PendingResets = SubSeq(admins_sent, ResetsHandled + 1, Len(admins_sent))
    /\ ResetsHandled > 0 => admin_users = admins_sent[ResetsHandled]

\* two ResetAdmins with different sets were sent and both handled, the second
\* removing an admin the first had named
C21Witness ==
    /\ Len(admins_sent) = 2
    /\ ResetsHandled = 2
    /\ admins_sent[1] \ admins_sent[2] # {}
    /\ admin_users = admins_sent[2]

\* the step of a ResetAdmins control message: the admin set is replaced and
\* nothing else of the room changes, the flags of the connections included
ResetChangesAdminSetOnly ==
    \A new_admins \in SUBSET Users :
        ResetAdmins(new_admins) =>
            /\ admin_users' = new_admins
            /\ UNCHANGED <<connections, conn_is_admin, user_id_to_conn_id, muted_users,
                           banned_users, stats, roomVars, out, db_q, next_msg>>

\* a KickUser, MuteUser or CustomEvent of a connection whose flag is set takes
\* effect whether or not its user is in the admin set now
FlaggedFrameTakesEffect ==
    \A c \in ConnIds, u \in Users :
        (c \in connections /\ conn_is_admin[c]) =>
            /\ Frame(c, KickUserMsg(u)) => u \in banned_users'
            /\ Frame(c, MuteUserMsg(u)) => u \in muted_users'
            /\ Frame(c, CustomEventMsg) => next_msg' = next_msg + 1

\* the flag of a connection is set by its own join alone, from the admin set
\* of that moment
FlagSetAtJoin ==
    \A c \in ConnIds :
        /\ (c \in connections /\ c \in connections' /\ sock[c]' = sock[c]) =>
               conn_is_admin'[c] = conn_is_admin[c]
        /\ \A u \in Users :
               (Join(c, u) /\ c \in connections') =>
                   conn_is_admin'[c] = (u \in admin_users)

\* C22: ResetAdmins changes only the actor's admin set; each connection keeps
\* the is_admin value taken at its join, so a user removed from the admin set
\* still has KickUser, MuteUser and CustomEvent on its connection, and a user
\* added to it has them only on a connection that joins afterwards
SnapshotOutlivesReset ==
    [][ResetChangesAdminSetOnly /\ FlaggedFrameTakesEffect /\ FlagSetAtJoin
       /\ UnauthorizedFrame]_vars

\* a connected user with the flag is no longer an admin, a connected admin
\* has no flag, and a mute was made
C22Witness ==
    \E c, k \in connections :
        /\ conn_is_admin[c] /\ sock_user[c] \notin admin_users
        /\ ~conn_is_admin[k] /\ sock_user[k] \in admin_users
        /\ sock_user[k] \in muted_users
        /\ ncontrol > 0

\* the step of a MuteUser(u) of a connection with the admin flag: u is in the
\* mute set afterwards and nothing else of the room changes
MuteUserAddsTarget ==
    \A c \in ConnIds, u \in Users :
        (c \in connections /\ conn_is_admin[c] /\ Frame(c, MuteUserMsg(u))) =>
            /\ muted_users' = muted_users \cup {u}
            /\ UNCHANGED <<connections, conn_is_admin, user_id_to_conn_id, banned_users,
                           admin_users, stats, roomVars, out, db_q, dbVars, next_msg>>

\* the same step for a user who is muted already changes nothing at all
SecondMuteUserChangesNothing ==
    \A c \in ConnIds, u \in Users :
        (c \in connections /\ conn_is_admin[c] /\ u \in muted_users
         /\ Frame(c, MuteUserMsg(u))) =>
            UNCHANGED <<actorVars, roomVars, out, db_q, dbVars, next_msg>>

\* C23: MuteUser(u) of an admin handled twice leaves the room as handling it
\* once does: u is in the mute set, once, and nothing else has changed
MuteUserIdempotent == [][MuteUserAddsTarget /\ SecondMuteUserChangesNothing]_vars

\* the one connection of the room has the admin flag and has sent two frames,
\* which can only have been two MuteUser of the same user
C23Witness ==
    /\ sock = [c \in ConnIds |-> IF c = 1 THEN "open" ELSE "new"]
    /\ connections = {1} /\ conn_is_admin[1]
    /\ nframes = 2
    /\ banned_users = {} /\ next_msg = 0
    /\ Cardinality(muted_users) = 1

\* C24: a Ping{ts} frame is answered on the socket it came from with one
\* Pong{ts} of the same ts; no InternalMessage is sent to the room actor on
\* any of its channels and no state of the room changes
PingAnsweredLocally ==
    [][\A c \in ConnIds, ping \in PingFrames :
          SocketPing(c, ping) =>
              /\ pong' = [pong EXCEPT ![c] = Append(@, [type |-> "Pong",
                                                       timestamp |-> ping.timestamp])]
              /\ UNCHANGED <<normal_q, high_q, control_q, stats_q, actorVars, roomVars,
                             out, db_q, dbVars, next_msg>>]_vars

\* a connection was answered two Pongs with different timestamps, in the
\* order of its Pings, and the room's inbound holds nothing from it but its
\* UserJoined
C24Witness ==
    \E c \in ConnIds :
        /\ Len(pong[c]) = 2
        /\ pong[c][1].timestamp > pong[c][2].timestamp
        /\ \A i \in DOMAIN normal_q :
              normal_q[i].conn_id = c => normal_q[i].content = UserJoinedMsg

\* C25: when the debounce timer of a burst of joins fires with the
\* notification still pending, one RoomStats with the current_users and
\* peak_users of that moment is broadcast to the connections of the room
JoinBurstNotifiedOnce ==
    [][(JoinNotifyTimer /\ pending_join_notify) =>
          out' = Broadcast(out, connections, RoomStatsFrame(stats), NoConn)]_vars

\* C26: the actor is never held up by a recipient: whatever the outbound
\* channels of the other connections hold, full ones included, it can handle
\* the next SendMessage of a member, completing the broadcast
BroadcastNeverBlocks ==
    \A c \in connections, x \in Contents :
        (/\ sock[c] = "open" /\ nframes < MaxFrames /\ actor_pc = "running"
         /\ DbHasRoom /\ HasRoom(c)) =>
            ENABLED Frame(c, SendMessageMsg(x))

\* the POSTs of a finished event: a delivered one has failed retries times and
\* succeeded with its last POST; a dropped one has failed with each of its
\* max_retries + 1 POSTs
PostsCounted ==
    \A e \in Events :
        /\ cb[e].posts <= CallbackMaxRetries + 1
        /\ cb[e].at = "done" => cb[e].posts = cb[e].retries + 1
        /\ cb[e].at = "dropped" =>
               cb[e].posts = CallbackMaxRetries + 1 /\ cb[e].retries = cb[e].posts

\* a finished event is never posted again
NoPostAfterReturn ==
    \A e \in Events : cb[e].at \in {"done", "dropped"} => cb'[e] = cb[e]

\* C27: send_callback_with_retry stops at the first 2xx response and makes no
\* further POST; when every attempt fails it makes exactly max_retries + 1
\* POSTs, then drops the event and returns
RetryUntilSuccessOrExhausted == [](PostsCounted) /\ [][NoPostAfterReturn]_vars

\* one event was delivered by its last allowed attempt, one by its first,
\* and one was dropped
C27Witness ==
    \E e1, e2, e3 \in Events :
        /\ cb[e1].at = "done" /\ cb[e1].posts = CallbackMaxRetries + 1
        /\ cb[e2].at = "done" /\ cb[e2].posts = 1
        /\ cb[e3].at = "dropped"

\* the places of a management request at which it performs a database call,
\* a send on a channel of the room, a wait for a stats reply or an HTTP call
IoPlaces == {"db", "send", "query", "await", "http"}

\* C28: no task holds the registry mutex while it performs a database call,
\* an HTTP call or a send on a channel of a room, or waits for a stats reply
MutexFreeDuringIo ==
    \A t \in Tasks : mg[t].at \in IoPlaces => rooms_lock # t

\* a step of the room's actor: the handling of one message it received
ActorWrites ==
    \/ \E c \in ConnIds, u \in Users : Join(c, u)
    \/ \E c \in ConnIds, f \in ModerationFrames : Frame(c, f)
    \/ \E c \in ConnIds : Leave(c)
    \/ \E u \in Users : Unban(u)
    \/ \E new_admins \in SUBSET Users : ResetAdmins(new_admins)

\* C29: the in-memory state of the room (connection map, user index, mute,
\* ban and admin sets, stats, last-message times, join-notify flags) changes
\* only in steps of the room's actor, never in a step of another task
RoomStateWrittenByActorOnly ==
    [][(<<actorVars, user_last_message_time, pending_join_notify,
          join_notify_timer_active>>'
          # <<actorVars, user_last_message_time, pending_join_notify,
              join_notify_timer_active>>) => ActorWrites]_vars

\* the writer executes the batch it has built
BatchExecuted == DbWriteBatch \/ DbWriteBatchFail

\* a batch that is executed holds at least one command and is cleared
BatchNotEmpty == BatchExecuted => (Len(buffer) >= 1 /\ buffer' = <<>>)

\* C30: every batch the persistence writer executes holds between 1 and
\* BatchLimit commands: the buffer never grows past the limit of the drain
\* loop, and an empty buffer is not written
BatchSizes == [](Len(buffer) <= BatchLimit) /\ [][BatchNotEmpty]_vars

\* a full batch is about to be written while more commands wait
C30Witness == db_pc = "write" /\ Len(buffer) = BatchLimit /\ db_q # <<>>

\* the step of a batch that fails: no table changes, the batch is gone from
\* the buffer and is not put back in the channel, the actor's state and the
\* frames it sent are as before, and the writer is back at its recv
FailedBatchDiscarded ==
    DbWriteBatchFail =>
        /\ UNCHANGED <<chat_history, room_sessions, room_bans>>
        /\ buffer' = <<>>
        /\ db_q' = db_q
        /\ UNCHANGED <<actorVars, roomVars, out, actor_pc>>
        /\ db_pc' = "recv"

\* the ChatMessage commands that wait in the channel or in the buffer
PendingChat == SelectSeq(buffer \o db_q, LAMBDA cmd : cmd.type = "ChatMessage")

\* no command is executed twice: a waiting ChatMessage is in no row, and no
\* two rows and no two waiting commands are of the same message
NoCommandRetried ==
    /\ \A i \in DOMAIN PendingChat, j \in DOMAIN chat_history :
          PendingChat[i].id # chat_history[j].id
    /\ \A i, j \in DOMAIN PendingChat : PendingChat[i].id = PendingChat[j].id => i = j
    /\ \A i, j \in DOMAIN chat_history : chat_history[i].id = chat_history[j].id => i = j

\* C31: when a batch fails none of its commands becomes visible in the
\* database, the batch is discarded and never executed again, the actor is
\* not informed, and the writer goes on with the commands that follow
FailedBatchDropped == [][FailedBatchDiscarded]_vars /\ [](NoCommandRetried)

\* a message is lost with its failed batch and a later message is committed
C31Witness ==
    /\ db_failed
    /\ \E j \in DOMAIN chat_history :
          /\ chat_history[j].id > 1
          /\ \A i \in DOMAIN chat_history : chat_history[i].id # 1
          /\ \A i \in DOMAIN PendingChat : PendingChat[i].id # 1

\* the batches sent so far are those of pages 1, 2, ... in this order, each
\* with the batch id of its page
PagesInOrder ==
    \A k \in HistKinds : \A i \in DOMAIN hist[k].sent :
        hist[k].sent[i].batch_id = [prefix |-> k, page |-> i]

\* a batch carries is_last_batch exactly when no row lies beyond its page
FlagOnLastPageOnly ==
    \A k \in HistKinds : \A i \in DOMAIN hist[k].sent :
        hist[k].sent[i].is_last_batch <=> (hist[k].rows <= i * hist[k].limit)

\* a sender that has returned sent a last batch, and nothing after it
EndsWithLastBatch(k) ==
    LET sent == hist[k].sent
    IN /\ sent # <<>>
       /\ sent[Len(sent)].is_last_batch
       /\ \A i \in 1..(Len(sent) - 1) : ~sent[i].is_last_batch

ForwardedBy(c, q) == SelectSeq(q, LAMBDA m : m.conn_id = c)

\* what a step does to the messages of c on the normal-priority channel: the
\* actor takes messages from the front, or handle_socket of c adds one at the
\* back: UserJoined with the sender as the socket's first message, UserLeft
\* as the socket ends, and the frame that arrived in between
ForwardStep(c) ==
    LET old == ForwardedBy(c, normal_q)
        new == ForwardedBy(c, normal_q')
    IN \/ \E n \in 0..Len(old) : new = SubSeq(old, n + 1, Len(old))
       \/ /\ Len(new) = Len(old) + 1
          /\ SubSeq(new, 1, Len(old)) = old
          /\ LET m == new[Len(new)]
             IN CASE sock[c] = "new" ->
                       m.content = UserJoinedMsg /\ m.sender /\ sock'[c] = "open"
                  [] sock[c] = "open" /\ sock'[c] = "done" -> m.content = UserLeftMsg
                  [] sock[c] = "open" /\ sock'[c] = "open" ->
                       m.content \in LoopFrames /\ nframes' = nframes + 1
                  [] OTHER -> FALSE

\* the first and the last send of handle_socket are made, and a Ping is not
\* forwarded
ForwardEnds(c) ==
    LET old == ForwardedBy(c, normal_q)
        new == ForwardedBy(c, normal_q')
    IN /\ (sock[c] = "new" /\ sock'[c] = "open") => Len(new) = Len(old) + 1
       /\ (sock[c] = "open" /\ sock'[c] = "done" /\ actor_pc = "running") =>
              Len(new) = Len(old) + 1
       /\ (\E ping \in PingFrames : SocketPing(c, ping)) => normal_q' = normal_q

\* C33: handle_socket of a socket whose room it found forwards UserJoined
\* first, then each decoded frame other than Ping as it arrives, and, when
\* the socket ends, one UserLeft as its last message; a socket that has not
\* joined or has ended has forwarded nothing since
SocketForwardsInOrder ==
    [][\A c \in ConnIds : ForwardStep(c) /\ ForwardEnds(c)]_vars

\* a socket joined, was answered a Ping, forwarded a frame and ended: the
\* channel holds its UserJoined, the frame and its UserLeft in this order
C33Witness ==
    \E c \in ConnIds :
        /\ sock[c] = "done"
        /\ pong[c] # <<>>
        /\ LET q == ForwardedBy(c, normal_q)
           IN /\ Len(q) = 3
              /\ q[1].content = UserJoinedMsg
              /\ q[2].content \in LoopFrames
              /\ q[3].content = UserLeftMsg

\* C34: when the writer task of an evicted connection has written its
\* YouAreKicked, no sender of the connection's outbound channel is left, so
\* that the channel closes and the writer task ends
EvictedChannelCloses ==
    [][\A c \in ConnIds :
          (WriterWrite(c) /\ Head(out[c]) = YouAreKicked /\ c \notin connections) =>
              OutboundSenders(c)' = {}]_vars

\* the step of a message whose conn id is not in the connection map
StaleMessage ==
    \A c \in ConnIds :
        (c \notin connections /\ (Leave(c) \/ \E f \in StaleFrames : Frame(c, f))) =>
            UNCHANGED <<actorVars, roomVars, out, db_q, next_msg, actor_pc>>

\* C35: a UserLeft, SendMessage, KickUser, MuteUser or CustomEvent whose conn
\* id is not in the connection map changes nothing: the map, the user index,
\* the stats and the sets stay, no frame and no command is sent
StaleMessageIgnored == [][StaleMessage]_vars

\* the displaced first session of the admin a sent every frame the model
\* allows and ended; the newer session is in the map and nothing came of the
\* frames
C35Witness ==
    /\ sock[1] = "done" /\ sock_user[1] = "a"
    /\ connections = {2} /\ user_id_to_conn_id["a"] = 2
    /\ stats.current_users = 1
    /\ nframes = MaxFrames
    /\ next_msg = 0 /\ banned_users = {} /\ muted_users = {}
    /\ \A i \in DOMAIN db_q : db_q[i].type = "UserJoined"

\* the flag tells whether a timer task sleeps, and there is never a second
TimerFlagCountsTimers ==
    /\ timers <= 1
    /\ join_notify_timer_active <=> timers = 1

\* a step made while the flag is set starts no timer, and the step of the
\* timer leaves both flags false
TimerSteps ==
    /\ join_notify_timer_active => timers' <= timers
    /\ JoinNotifyTimer => (~pending_join_notify' /\ ~join_notify_timer_active')

\* C36: at most one join-notify timer task is outstanding: a join handled
\* while join_notify_timer_active is set starts no other, and when the timer
\* fires pending_join_notify and join_notify_timer_active are both false
OneJoinNotifyTimer == [](TimerFlagCountsTimers) /\ [][TimerSteps]_vars

\* two members joined and one timer sleeps
C36Witness ==
    /\ stats.total_joins = 2 /\ Cardinality(connections) = 2
    /\ timers = 1 /\ join_notify_timer_active /\ pending_join_notify

\* C37: when unban_user has returned for a user kicked before the call, the
\* actor has handled the UnbanUser message and the persistence writer has
\* written every command without failure, the user is in neither the ban set
\* of the actor nor the rows of room_bans
UnbanReachesBothStores ==
    (/\ mg["unban"].at = "done"
     /\ control_q = <<>>
     /\ db_q = <<>>
     /\ ~db_failed) =>
        \A u \in mg["unban"].arg : u \notin banned_users /\ u \notin room_bans

JoinNotRegistered ==
    \A c \in ConnIds, u \in Users :
        (Join(c, u) /\ c \notin connections') =>
            UNCHANGED <<connections, conn_is_admin, user_id_to_conn_id, stats>>

CommandsKeptInOrder ==
    \/ buffer' \o db_q' = buffer \o db_q
    \/ BatchExecuted /\ buffer' = <<>> /\ db_q' = db_q
    \/ /\ buffer' = buffer
       /\ Len(db_q') = Len(db_q) + 1
       /\ SubSeq(db_q', 1, Len(db_q)) = db_q

\* the ChatMessage rows and the waiting ChatMessage commands are in the order
\* in which the messages were sent, the rows first
ChatInSendOrder ==
    LET ids == [i \in DOMAIN chat_history |-> chat_history[i].id]
               \o [i \in DOMAIN PendingChat |-> PendingChat[i].id]
    IN \A i, j \in DOMAIN ids : i < j => ids[i] < ids[j]

\* the writer has left its loop only with the channel closed and nothing left
WriterExitsDrained ==
    db_pc = "done" => (DbChannelClosed /\ db_q = <<>> /\ buffer = <<>>)

\* C40: every command sent on the writer's channel is put in exactly one
\* batch, commands are batched and executed in the order in which they were
\* sent, and the writer leaves its loop only when the channel is closed and
\* every command has been put in a batch
CommandsBatchedInOrder ==
    /\ [][CommandsKeptInOrder]_vars
    /\ [](ChatInSendOrder /\ WriterExitsDrained)

\* the writer has left its loop after committing the rows of two messages
C40Witness ==
    /\ db_pc = "done" /\ ~db_failed
    /\ Len(chat_history) = 2
    /\ \A u \in Users : room_sessions[u].open + room_sessions[u].closed <= 2
    /\ \E u \in Users : room_sessions[u].open + room_sessions[u].closed >= 1

====
